---- MODULE Spec2Model ----
(***************************************************************************)
(* Verification model of the SSA middle-end passes of the Go compiler fork *)
(* momchil-velikov/go: sparse conditional constant propagation (sccp.go)   *)
(* and common subexpression elimination (cse.go).                          *)
(*                                                                         *)
(* A function is a record                                                  *)
(*   kinds : block id -> block kind      (f.Blocks[i].Kind)                *)
(*   succs : block id -> Seq(Edge)       (b.Succs; Edge = [b, i])          *)
(*   preds : block id -> Seq(Edge)       (b.Preds)                         *)
(*   ctl   : block id -> value id or 0   (b.Control, 0 = nil)              *)
(*   order : block id -> Seq(value id)   (b.Values, in list order)         *)
(*   vals  : value id -> [op, args, aux, typ, sym]                         *)
(*           (v.Op, v.Args, v.AuxInt, v.Type, v.Aux with "" = nil)         *)
(* Block 1 is f.Entry; block ids are positions in f.Blocks.                *)
(***************************************************************************)
EXTENDS Integers, Sequences, FiniteSets, TLC

\* ------------------------------------------------------------------------
\* Lattice kinds (sccp.go, latticeKind iota).
latticeTop == 0
latticeConst == 1
latticeBottom == 2

LV(k, b) == [kind |-> k, bits |-> b]

\* Result of a fold function: a lattice value, or a run-time panic of the
\* compiler itself (Go's integer division by zero panics).
FoldOk(k, b) == [kind |-> k, bits |-> b, trap |-> FALSE]
FoldPanic == [kind |-> latticeBottom, bits |-> 0, trap |-> TRUE]

\* ------------------------------------------------------------------------
\* Go integer conversions on int64 payloads.
Int8(x) == LET m == x % 256 IN IF m >= 128 THEN m - 256 ELSE m
Int16(x) == LET m == x % 65536 IN IF m >= 32768 THEN m - 65536 ELSE m
Uint8(x) == x % 256
Uint16(x) == x % 65536

\* Go's integer division truncates toward zero.
Abs(x) == IF x < 0 THEN -x ELSE x
TruncDiv(a, b) == LET q == Abs(a) \div Abs(b) IN IF (a < 0) = (b < 0) THEN q ELSE -q

\* uint64(a) < uint64(b) on two's-complement int64 payloads.
LessU64(a, b) == IF (a < 0) = (b < 0) THEN a < b ELSE b < 0

b2i(c) == IF c THEN 1 ELSE 0

\* ------------------------------------------------------------------------
\* Floating point payloads. A float is written as a count of halves (3 is
\* 1.5); every float of Floats is a value of both float32 and float64. An
\* int64 payload that takes part in a float conversion is written as four
\* 16-bit limbs, most significant first.
Floats == {-2, -1, 0, 1, 2, 3, 4}

\* math.Float32bits: the IEEE-754 single pattern, two limbs.
Float32bits(x) ==
    CASE x = 0 -> <<0, 0>>
      [] x = 1 -> <<16128, 0>>
      [] x = 2 -> <<16256, 0>>
      [] x = 3 -> <<16320, 0>>
      [] x = 4 -> <<16384, 0>>
      [] x = -1 -> <<48896, 0>>
      [] x = -2 -> <<49024, 0>>

\* math.Float64bits: the IEEE-754 double pattern, four limbs.
Float64bits(x) ==
    CASE x = 0 -> <<0, 0, 0, 0>>
      [] x = 1 -> <<16352, 0, 0, 0>>
      [] x = 2 -> <<16368, 0, 0, 0>>
      [] x = 3 -> <<16376, 0, 0, 0>>
      [] x = 4 -> <<16384, 0, 0, 0>>
      [] x = -1 -> <<49120, 0, 0, 0>>
      [] x = -2 -> <<49136, 0, 0, 0>>

Float32frombits(w) == CHOOSE x \in Floats : Float32bits(x) = w
Float64frombits(w) == CHOOSE x \in Floats : Float64bits(x) = w

\* uint32(x) keeps the two low limbs; int64(uint32) zero-extends.
i32f(x) == Float32frombits(<<x[3], x[4]>>)
i64f(x) == Float64frombits(x)
f32i(x) == <<0, 0>> \o Float32bits(x)
f64i(x) == Float64bits(x)

\* int64(int32(f)) of a float: truncation toward zero, sign-extended.
Int64Limbs(n) == IF n >= 0 THEN <<0, 0, 0, n>> ELSE <<65535, 65535, 65535, 65536 + n>>
FloatToInt32(x) == Int64Limbs(TruncDiv(x, 2))

\* ------------------------------------------------------------------------
\* Simple fold functions: fn(args) -> int64.
foldAdd8(a) == Int8(a[1] + a[2])
foldAdd16(a) == Int16(a[1] + a[2])
foldSub8(a) == Int8(a[1] - a[2])
foldSub16(a) == Int16(a[1] - a[2])
foldMul8(a) == Int8(a[1] * a[2])
foldMul16(a) == Int16(a[1] * a[2])
foldEq(a) == b2i(a[1] = a[2])
foldNeq(a) == b2i(a[1] # a[2])
foldLess(a) == b2i(a[1] < a[2])
foldLessU(a) == b2i(LessU64(a[1], a[2]))
foldLeq(a) == b2i(a[1] <= a[2])
foldLeqU(a) == b2i(~LessU64(a[2], a[1]))
foldGreater(a) == b2i(a[1] > a[2])
foldGreaterU(a) == b2i(LessU64(a[2], a[1]))
foldGeq(a) == b2i(a[1] >= a[2])
foldGeqU(a) == b2i(~LessU64(a[1], a[2]))
foldNot(a) == b2i(a[1] = 0)
foldNeg(a) == -a[1]
foldCom(a) == -a[1] - 1
foldCopy(a) == a[1]
foldSignExt8(a) == Int8(a[1])
foldZeroExt8(a) == Uint8(a[1])
foldTruncTo8(a) == Int8(a[1])
foldCvt32Fto32(a) == FloatToInt32(i32f(a[1]))

\* General fold functions: genFn(kinds, args) -> latticeValue.
\* The zero-divisor test of the division folds reads the KIND of the
\* divisor, k[1] == 0, as the source does.
foldDiv8(k, a) ==
    IF k[1] = latticeBottom \/ k[2] = latticeBottom THEN FoldOk(latticeBottom, 0)
    ELSE IF k[1] = latticeTop \/ k[2] = latticeTop THEN FoldOk(latticeTop, 0)
    ELSE IF k[2] = 0 THEN FoldOk(latticeBottom, 0)
    ELSE IF Int8(a[2]) = 0 THEN FoldPanic
    ELSE FoldOk(latticeConst, Int8(TruncDiv(Int8(a[1]), Int8(a[2]))))

foldDiv16(k, a) ==
    IF k[1] = latticeBottom \/ k[2] = latticeBottom THEN FoldOk(latticeBottom, 0)
    ELSE IF k[1] = latticeTop \/ k[2] = latticeTop THEN FoldOk(latticeTop, 0)
    ELSE IF k[2] = 0 THEN FoldOk(latticeBottom, 0)
    ELSE IF Int16(a[2]) = 0 THEN FoldPanic
    ELSE FoldOk(latticeConst, Int16(TruncDiv(Int16(a[1]), Int16(a[2]))))

foldDivU8(k, a) ==
    IF k[1] = latticeBottom \/ k[2] = latticeBottom THEN FoldOk(latticeBottom, 0)
    ELSE IF k[1] = latticeTop \/ k[2] = latticeTop THEN FoldOk(latticeTop, 0)
    ELSE IF k[2] = 0 THEN FoldOk(latticeBottom, 0)
    ELSE IF Uint8(a[2]) = 0 THEN FoldPanic
    ELSE FoldOk(latticeConst, Int8(Uint8(a[1]) \div Uint8(a[2])))

foldDivU16(k, a) ==
    IF k[1] = latticeBottom \/ k[2] = latticeBottom THEN FoldOk(latticeBottom, 0)
    ELSE IF k[1] = latticeTop \/ k[2] = latticeTop THEN FoldOk(latticeTop, 0)
    ELSE IF k[2] = 0 THEN FoldOk(latticeBottom, 0)
    ELSE IF Uint16(a[2]) = 0 THEN FoldPanic
    ELSE FoldOk(latticeConst, Int16(Uint16(a[1]) \div Uint16(a[2])))

\* foldAndB testing the kinds before the constant false, as the folds of
\* the other opcodes do.
foldAndBKindsFirst(k, a) ==
    IF k[1] = latticeBottom \/ k[2] = latticeBottom THEN FoldOk(latticeBottom, 0)
    ELSE IF k[1] = latticeTop \/ k[2] = latticeTop THEN FoldOk(latticeTop, 0)
    ELSE FoldOk(latticeConst, b2i(a[1] # 0 /\ a[2] # 0))

foldAndB(k, a) ==
    IF (k[1] = latticeConst /\ a[1] = 0) \/ (k[2] = latticeConst /\ a[2] = 0)
    THEN FoldOk(latticeConst, 0)
    ELSE IF k[1] = latticeBottom \/ k[2] = latticeBottom THEN FoldOk(latticeBottom, 0)
    ELSE IF k[1] = latticeTop \/ k[2] = latticeTop THEN FoldOk(latticeTop, 0)
    ELSE FoldOk(latticeConst, b2i(a[1] # 0 /\ a[2] # 0))

foldOrB(k, a) ==
    IF (k[1] = latticeConst /\ a[1] = 1) \/ (k[2] = latticeConst /\ a[2] = 1)
    THEN FoldOk(latticeConst, 1)
    ELSE IF k[1] = latticeBottom \/ k[2] = latticeBottom THEN FoldOk(latticeBottom, 0)
    ELSE IF k[1] = latticeTop \/ k[2] = latticeTop THEN FoldOk(latticeTop, 0)
    ELSE FoldOk(latticeConst, b2i(a[1] # 0 \/ a[2] # 0))

\* ------------------------------------------------------------------------
\* The fold table.
GenOps == {"Div8", "Div16", "Div8u", "Div16u", "AndB", "OrB"}

SimpleOps ==
    {"Add8", "Add16", "Sub8", "Sub16", "Mul8", "Mul16",
     "Eq8", "Neq8", "Less8", "Less8U", "Leq8", "Leq8U",
     "Greater8", "Greater8U", "Geq8", "Geq8U",
     "EqB", "NeqB", "Not", "Neg8", "Neg16", "Com8", "Com16", "Copy",
     "SignExt8to16", "ZeroExt8to16", "Trunc16to8",
     "Cvt32Fto32", "Cvt32Fto64F", "Cvt64Fto32F"}

isConst(op) == op \in {"ConstBool", "Const8", "Const16", "Const32", "Const64"}

\* foldMap[op].fn applied to the argument bits.
foldMapFn(op, a) ==
    CASE op = "Add8" -> foldAdd8(a)
      [] op = "Add16" -> foldAdd16(a)
      [] op = "Sub8" -> foldSub8(a)
      [] op = "Sub16" -> foldSub16(a)
      [] op = "Mul8" -> foldMul8(a)
      [] op = "Mul16" -> foldMul16(a)
      [] op \in {"Eq8", "EqB"} -> foldEq(a)
      [] op \in {"Neq8", "NeqB"} -> foldNeq(a)
      [] op = "Less8" -> foldLess(a)
      [] op = "Less8U" -> foldLessU(a)
      [] op = "Leq8" -> foldLeq(a)
      [] op = "Leq8U" -> foldLeqU(a)
      [] op = "Greater8" -> foldGreater(a)
      [] op = "Greater8U" -> foldGreaterU(a)
      [] op = "Geq8" -> foldGeq(a)
      [] op = "Geq8U" -> foldGeqU(a)
      [] op = "Not" -> foldNot(a)
      [] op \in {"Neg8", "Neg16"} -> foldNeg(a)
      [] op \in {"Com8", "Com16"} -> foldCom(a)
      [] op = "Copy" -> foldCopy(a)
      [] op = "SignExt8to16" -> foldSignExt8(a)
      [] op = "ZeroExt8to16" -> foldZeroExt8(a)
      [] op = "Trunc16to8" -> foldTruncTo8(a)
      [] op = "Cvt32Fto32" -> foldCvt32Fto32(a)
      [] op = "Cvt32Fto64F" -> foldCvt32Fto32(a)
      [] op = "Cvt64Fto32F" -> foldCvt32Fto32(a)

\* foldMap[op].genFn applied to the argument kinds and bits.
foldMapGenFn(op, k, a) ==
    CASE op = "Div8" -> foldDiv8(k, a)
      [] op = "Div16" -> foldDiv16(k, a)
      [] op = "Div8u" -> foldDivU8(k, a)
      [] op = "Div16u" -> foldDivU16(k, a)
      [] op = "AndB" -> foldAndB(k, a)
      [] op = "OrB" -> foldOrB(k, a)

getFoldFn(op) == [ok |-> op \in GenOps \cup SimpleOps, gen |-> op \in GenOps]

\* ------------------------------------------------------------------------
\* IR accessors.
Edge(b, i) == [b |-> b, i |-> i]
NumBlocks(f) == Len(f.kinds)
NumValues(f) == Len(f.vals)
Op(f, v) == f.vals[v].op
Args(f, v) == f.vals[v].args
AuxInt(f, v) == f.vals[v].aux
Type(f, v) == f.vals[v].typ
\* v.Block: the block whose value list holds v.
BlockOf(f, v) == CHOOSE b \in 1..NumBlocks(f) : \E i \in 1..Len(f.order[b]) : f.order[b][i] = v

RECURSIVE Concat(_, _)
Concat(ss, i) == IF i > Len(ss) THEN <<>> ELSE ss[i] \o Concat(ss, i + 1)

\* Values in the order "for _, b := range f.Blocks { for _, v := range b.Values".
ValuesInOrder(f) == Concat(f.order, 1)

RECURSIVE Occurrences(_, _, _, _)
Occurrences(args, a, v, i) ==
    IF i > Len(args) THEN <<>>
    ELSE (IF args[i] = a THEN <<v>> ELSE <<>>) \o Occurrences(args, a, v, i + 1)

RECURSIVE UseFrom(_, _, _, _)
UseFrom(f, vs, a, i) ==
    IF i > Len(vs) THEN <<>>
    ELSE Occurrences(Args(f, vs[i]), a, vs[i], 1) \o UseFrom(f, vs, a, i + 1)

\* s.cells[a.ID].use and s.cells[v.ID].ctl, as sccp() collects them.
use(f, a) == UseFrom(f, ValuesInOrder(f), a, 1)

RECURSIVE CtlFrom(_, _, _)
CtlFrom(f, v, b) ==
    IF b > NumBlocks(f) THEN <<>>
    ELSE (IF f.ctl[b] = v THEN <<b>> ELSE <<>>) \o CtlFrom(f, v, b + 1)

ctl(f, v) == CtlFrom(f, v, 1)

\* ------------------------------------------------------------------------
\* The SSA worklist: a sparse set, kept as its dense vector.
SparseAdd(d, x) == IF \E i \in 1..Len(d) : d[i] = x THEN d ELSE Append(d, x)
SparseTop(d) == d[Len(d)]
SparsePop(d) == SubSeq(d, 1, Len(d) - 1)

\* ------------------------------------------------------------------------
\* The analysis state s = [cells, exec, flowlist, ssalist, panic].
InitState(f) ==
    [cells |-> [v \in 1..NumValues(f) |-> LV(latticeTop, 0)],
     exec |-> {},
     flowlist |-> <<>>,
     ssalist |-> <<>>,
     panic |-> FALSE]

RECURSIVE ExecFlags(_, _, _, _)
ExecFlags(f, s, b, i) ==
    IF i > Len(f.preds[b]) THEN <<>>
    ELSE LET p == f.preds[b][i].b
             j == f.preds[b][i].i
         IN <<f.succs[p][j] \in s.exec>> \o ExecFlags(f, s, b, i + 1)

execEdges(f, s, b) ==
    LET x == ExecFlags(f, s, b, 1)
    IN [x |-> x, n |-> Cardinality({i \in 1..Len(x) : x[i]})]

RECURSIVE AddAll(_, _, _)
AddAll(d, us, i) == IF i > Len(us) THEN d ELSE AddAll(SparseAdd(d, us[i]), us, i + 1)

\* What propagate appends to the flow worklist for one block whose control
\* is a value with lattice value lv; ok = FALSE is an index out of range.
CtlEdges(f, b, lv) ==
    IF lv.kind = latticeBottom THEN [ok |-> TRUE, es |-> f.succs[b]]
    ELSE IF lv.bits = 0
         THEN IF Len(f.succs[b]) >= 2 THEN [ok |-> TRUE, es |-> <<f.succs[b][2]>>]
              ELSE [ok |-> FALSE, es |-> <<>>]
         ELSE IF Len(f.succs[b]) >= 1 THEN [ok |-> TRUE, es |-> <<f.succs[b][1]>>]
              ELSE [ok |-> FALSE, es |-> <<>>]

RECURSIVE PushCtl(_, _, _, _, _)
PushCtl(f, s, v, bs, i) ==
    IF i > Len(bs) \/ s.panic THEN s
    ELSE LET r == CtlEdges(f, bs[i], s.cells[v])
         IN PushCtl(f, [s EXCEPT !.flowlist = @ \o r.es, !.panic = ~r.ok], v, bs, i + 1)

propagate(f, s, v) ==
    PushCtl(f, [s EXCEPT !.ssalist = AddAll(@, use(f, v), 1)], v, ctl(f, v), 1)

\* The meet computed by visitPhi over the executable slots, from slot i on.
RECURSIVE PhiMeet(_, _, _, _, _)
PhiMeet(s, args, x, i, new) ==
    IF i > Len(args) \/ new.kind = latticeBottom THEN new
    ELSE IF ~x[i] THEN PhiMeet(s, args, x, i + 1, new)
    ELSE LET av == s.cells[args[i]]
         IN IF av.kind = latticeTop THEN PhiMeet(s, args, x, i + 1, new)
            ELSE IF av.kind = latticeBottom
                 THEN PhiMeet(s, args, x, i + 1, [new EXCEPT !.kind = latticeBottom])
            ELSE IF new.kind = latticeTop THEN PhiMeet(s, args, x, i + 1, av)
            ELSE IF new.bits # av.bits
                 THEN PhiMeet(s, args, x, i + 1, [new EXCEPT !.kind = latticeBottom])
            ELSE PhiMeet(s, args, x, i + 1, new)

\* Store the new lattice value and propagate when the kind changed.
SetCell(f, s, v, new) ==
    LET old == s.cells[v]
        s1 == [s EXCEPT !.cells[v] = new]
    IN IF old.kind # new.kind THEN propagate(f, s1, v) ELSE s1

visitPhi(f, s, v, x) == SetCell(f, s, v, PhiMeet(s, Args(f, v), x, 1, LV(latticeTop, 0)))

\* The lattice value visitExpr computes for v (trap: the fold panicked).
ExprValue(f, s, v) ==
    LET op == Op(f, v)
        t == getFoldFn(op)
        kinds == [i \in 1..Len(Args(f, v)) |-> s.cells[Args(f, v)[i]].kind]
        args == [i \in 1..Len(Args(f, v)) |-> s.cells[Args(f, v)[i]].bits]
        ntop == Cardinality({i \in 1..Len(kinds) : kinds[i] = latticeTop})
        nbot == Cardinality({i \in 1..Len(kinds) : kinds[i] = latticeBottom})
    IN IF isConst(op) THEN FoldOk(latticeConst, AuxInt(f, v))
       ELSE IF ~t.ok THEN FoldOk(latticeBottom, 0)
       ELSE IF ~t.gen
            THEN IF nbot > 0 THEN FoldOk(latticeBottom, 0)
                 ELSE IF ntop = 0 THEN FoldOk(latticeConst, foldMapFn(op, args))
                 ELSE FoldOk(latticeTop, 0)
       ELSE foldMapGenFn(op, kinds, args)

visitExpr(f, s, v) ==
    LET r == ExprValue(f, s, v)
    IN IF r.trap THEN [s EXCEPT !.panic = TRUE]
       ELSE SetCell(f, s, v, LV(r.kind, r.bits))

RECURSIVE VisitPhisFrom(_, _, _, _, _)
VisitPhisFrom(f, s, vs, x, i) ==
    IF i > Len(vs) \/ s.panic THEN s
    ELSE VisitPhisFrom(f, IF Op(f, vs[i]) = "Phi" THEN visitPhi(f, s, vs[i], x) ELSE s,
                       vs, x, i + 1)

visitPhis(f, s, b, x) == VisitPhisFrom(f, s, f.order[b], x, 1)

RECURSIVE VisitExprsFrom(_, _, _, _)
VisitExprsFrom(f, s, vs, i) ==
    IF i > Len(vs) \/ s.panic THEN s
    ELSE VisitExprsFrom(f, IF Op(f, vs[i]) = "Phi" THEN s ELSE visitExpr(f, s, vs[i]),
                        vs, i + 1)

visitExprs(f, s, b) ==
    LET s1 == VisitExprsFrom(f, s, f.order[b], 1)
    IN IF s1.panic THEN s1
       ELSE IF f.kinds[b] \in {"Plain", "First"}
            THEN [s1 EXCEPT !.flowlist = Append(@, f.succs[b][1])]
            ELSE s1

\* One iteration of the main loop taking flow edge number i of the worklist.
FlowStep(f, s, i) ==
    LET e == s.flowlist[i]
        s1 == [s EXCEPT !.flowlist = SubSeq(@, 1, i - 1) \o SubSeq(@, i + 1, Len(@))]
    IN IF e \in s1.exec THEN s1
       ELSE LET s2 == [s1 EXCEPT !.exec = @ \cup {e}]
                xn == execEdges(f, s2, e.b)
                s3 == visitPhis(f, s2, e.b, xn.x)
            IN IF xn.n > 1 \/ s3.panic THEN s3 ELSE visitExprs(f, s3, e.b)

\* One iteration of the main loop taking entry number i of the SSA worklist.
SSAStep(f, s, i) ==
    LET v == s.ssalist[i]
        s1 == [s EXCEPT !.ssalist = SubSeq(@, 1, i - 1) \o SubSeq(@, i + 1, Len(@))]
        xn == execEdges(f, s1, BlockOf(f, v))
    IN IF Op(f, v) = "Phi" THEN visitPhi(f, s1, v, xn.x)
       ELSE IF xn.n > 0 THEN visitExpr(f, s1, v)
       ELSE s1

\* The loop body as written: the flow worklist first, both lists LIFO.
LoopStep(f, s) ==
    IF Len(s.flowlist) > 0 THEN FlowStep(f, s, Len(s.flowlist))
    ELSE SSAStep(f, s, Len(s.ssalist))


\* ------------------------------------------------------------------------
\* Construction of functions: the edge lists of a CFG given by the
\* destination blocks of every block's successors.
RECURSIVE PairsOf(_, _, _, _)
PairsOf(sb, b, p, j) ==
    IF p > Len(sb) THEN <<>>
    ELSE IF j > Len(sb[p]) THEN PairsOf(sb, b, p + 1, 1)
    ELSE (IF sb[p][j] = b THEN <<Edge(p, j)>> ELSE <<>>) \o PairsOf(sb, b, p, j + 1)

IndexOf(seq, x) == CHOOSE i \in 1..Len(seq) : seq[i] = x

Range(s) == {s[i] : i \in 1..Len(s)}

MkFunc(kinds, sb, ctlv, order, vals) ==
    LET preds == [b \in 1..Len(kinds) |-> PairsOf(sb, b, 1, 1)]
    IN [kinds |-> kinds,
        succs |-> [p \in 1..Len(kinds) |->
                     [j \in 1..Len(sb[p]) |->
                        Edge(sb[p][j], IndexOf(preds[sb[p][j]], Edge(p, j)))]],
        preds |-> preds,
        ctl |-> ctlv,
        order |-> order,
        vals |-> vals]

ValAux(op, args, aux, typ, sym) ==
    [op |-> op, args |-> args, aux |-> aux, typ |-> typ, sym |-> sym]
Val(op, args, aux, typ) == ValAux(op, args, aux, typ, "")

\* Result types of the modelled opcodes.
BoolOps ==
    {"Eq8", "Neq8", "Less8", "Less8U", "Leq8", "Leq8U", "Greater8", "Greater8U",
     "Geq8", "Geq8U", "EqB", "NeqB", "Not", "AndB", "OrB", "ConstBool"}
ResultType(op) == IF op \in BoolOps THEN "bool" ELSE "int8"

\* Bounds of the families of input functions.
MaxConst == 1

K8 == {-128, -1, 127} \cup (0..MaxConst)
KB == {0, 1}
Arith8 == {"Add8", "Sub8", "Mul8", "Div8", "Div8u"}
Cmp8 == {"Eq8", "Neq8", "Less8", "Less8U", "Leq8", "Leq8U",
         "Greater8", "Greater8U", "Geq8", "Geq8U"}
Unary8 == {"Neg8", "Com8", "Copy"}
Logic == {"AndB", "OrB", "EqB", "NeqB"}

\* The orders of a three-element value list.
Orders3(a, b, c) ==
    <<  <<a, b, c>>, <<a, c, b>>, <<b, a, c>>, <<b, c, a>>, <<c, a, b>>, <<c, b, a>> >>
OrderIds == DOMAIN Orders3(1, 2, 3)

\* Straight-line code: b1: v1 = Const8 [k1]; v2 = Const8 [k2]; v3 = op v1 v2;
\* Plain -> b2: v4 = Eq8 v3 v2 (or Not v3); Ret.
FuncArith(op, k1, k2) ==
    MkFunc(<<"Plain", "Ret">>, << <<2>>, <<>> >>, <<0, 0>>,
           << <<1, 2, 3>>, <<4>> >>,
           <<Val("Const8", <<>>, k1, "int8"),
             Val("Const8", <<>>, k2, "int8"),
             Val(op, IF op \in Unary8 THEN <<1>> ELSE <<1, 2>>, 0, ResultType(op)),
             IF op \in Cmp8 THEN Val("Not", <<3>>, 0, "bool")
                           ELSE Val("Eq8", <<3, 2>>, 0, "bool")>>)

\* A diamond on a boolean: b1: v1 = Arg; v2 = ConstBool [kb]; v3 = op x y;
\* If v3 -> b2, b3.  b2: v4 = Const8 [k1]; -> b4.  b3: v5 = Const8 [k2]; -> b4.
\* b4: v6 = Phi v4 v5; v7 = Add8 v6 v6; Ret.
\* The three values of b1 are listed in order number o.
FuncDiamond(op, x, y, kb, k1, k2, o) ==
    MkFunc(<<"If", "Plain", "Plain", "Ret">>,
           << <<2, 3>>, <<4>>, <<4>>, <<>> >>, <<3, 0, 0, 0>>,
           << Orders3(1, 2, 3)[o], <<4>>, <<5>>, <<6, 7>> >>,
           <<Val("Arg", <<>>, 0, "bool"),
             Val("ConstBool", <<>>, kb, "bool"),
             Val(op, <<x, y>>, 0, "bool"),
             Val("Const8", <<>>, k1, "int8"),
             Val("Const8", <<>>, k2, "int8"),
             Val("Phi", <<4, 5>>, 0, "int8"),
             Val("Add8", <<6, 6>>, 0, "int8")>>)

\* Nested branches on one condition: b1: v1 = Arg; If v1 -> b2, b3.
\* b2: v2 = ConstBool [kb]; If v1 -> b4, b5.  b3, b4: Ret.
\* b5: v3 = op v2 v1; If v3 -> b6, b7.  b6: v4 = Const8 [k1]; -> b8.
\* b7: v5 = Const8 [k2]; -> b8.  b8: v6 = Phi v4 v5; Ret.
FuncNested(op, kb, k1, k2) ==
    MkFunc(<<"If", "If", "Ret", "Ret", "If", "Plain", "Plain", "Ret">>,
           << <<2, 3>>, <<4, 5>>, <<>>, <<>>, <<6, 7>>, <<8>>, <<8>>, <<>> >>,
           <<1, 1, 0, 0, 3, 0, 0, 0>>,
           << <<1>>, <<2>>, <<>>, <<>>, <<3>>, <<4>>, <<5>>, <<6>> >>,
           <<Val("Arg", <<>>, 0, "bool"),
             Val("ConstBool", <<>>, kb, "bool"),
             Val(op, <<2, 1>>, 0, "bool"),
             Val("Const8", <<>>, k1, "int8"),
             Val("Const8", <<>>, k2, "int8"),
             Val("Phi", <<4, 5>>, 0, "int8")>>)

\* A loop: b1: v1 = Const8 [k0]; v2 = Const8 [ks]; v3 = Const8 [lim]; -> b2.
\* b2: v4 = Phi v1 v6; v5 = cmp v4 v3; If v5 -> b3, b4.
\* b3: v6 = op v4 v2; -> b2.  b4: v7 = Neg8 v4; Ret.
\* swap lists the values of b2 as <<v5, v4>>.
FuncLoop(op, cmp, k0, ks, lim, swap) ==
    MkFunc(<<"Plain", "If", "Plain", "Ret">>,
           << <<2>>, <<3, 4>>, <<2>>, <<>> >>, <<0, 5, 0, 0>>,
           << <<1, 2, 3>>, IF swap THEN <<5, 4>> ELSE <<4, 5>>, <<6>>, <<7>> >>,
           <<Val("Const8", <<>>, k0, "int8"),
             Val("Const8", <<>>, ks, "int8"),
             Val("Const8", <<>>, lim, "int8"),
             Val("Phi", <<1, 6>>, 0, "int8"),
             Val(cmp, <<4, 3>>, 0, "bool"),
             Val(op, <<4, 2>>, 0, "int8"),
             Val("Neg8", <<4>>, 0, "int8")>>)

\* A block of three values in any order behind the entry block:
\* b1: -> b2.  b2: v1 = Arg; v2 = ConstBool [kb]; v3 = op v2 v1 (order o);
\* If v3 -> b3, b4.  b3: v4 = Const8 [k1]; -> b5.  b4: v5 = Const8 [k2]; -> b5.
\* b5: v6 = Phi v4 v5; Ret.
FuncOrder(op, kb, k1, k2, o) ==
    MkFunc(<<"Plain", "If", "Plain", "Plain", "Ret">>,
           << <<2>>, <<3, 4>>, <<5>>, <<5>>, <<>> >>, <<0, 3, 0, 0, 0>>,
           << <<>>, Orders3(1, 2, 3)[o], <<4>>, <<5>>, <<6>> >>,
           <<Val("Arg", <<>>, 0, "bool"),
             Val("ConstBool", <<>>, kb, "bool"),
             Val(op, <<2, 1>>, 0, "bool"),
             Val("Const8", <<>>, k1, "int8"),
             Val("Const8", <<>>, k2, "int8"),
             Val("Phi", <<4, 5>>, 0, "int8")>>)

Funcs ==
    {FuncArith(op, k1, k2) : op \in Arith8 \cup Cmp8 \cup Unary8, k1 \in K8, k2 \in K8}
    \cup {FuncDiamond(op, xy[1], xy[2], kb, 0, k2, o) :
            op \in Logic, xy \in {<<1, 2>>, <<2, 1>>, <<2, 2>>}, kb \in KB,
            k2 \in 0..MaxConst, o \in OrderIds}
    \cup {FuncNested(op, kb, 0, k2) : op \in Logic, kb \in KB, k2 \in 0..MaxConst}
    \cup {FuncLoop(op, cmp, k0, ks, lim, sw) :
            op \in {"Add8", "Mul8"}, cmp \in {"Less8", "Neq8"},
            k0 \in 0..MaxConst, ks \in 0..MaxConst, lim \in 0..MaxConst,
            sw \in BOOLEAN}
    \cup {FuncOrder(op, kb, 0, k2, o) :
            op \in Logic, kb \in KB, k2 \in 0..MaxConst, o \in OrderIds}

\* ------------------------------------------------------------------------
\* The passes as state machines over one set of variables.
VARIABLES
    fn0,       \* the function as handed to the pass
    fn,        \* the function's IR
    cells,     \* s.cells[i].lv
    exec,      \* s.exec
    flowlist,  \* s.flowlist
    ssalist,   \* s.ssalist (dense vector)
    pc,        \* position in the pass
    run,       \* 1: first run of sccp, 2: sccp run again on its own output
    ir1,       \* the IR after the first run
    input,     \* execution of fn0: the value of its Arg
    at,        \* execution of fn0: the block being executed (0: none)
    env,       \* execution of fn0: the values computed so far
    steps,     \* execution of fn0: number of blocks executed
    fop,       \* a fold applied on its own: the opcode
    fk,        \* a fold applied on its own: the argument kinds
    fa,        \* a fold applied on its own: the argument bits
    fres,      \* a fold applied on its own: the result
    partition,     \* cse: partition
    valueEqClass,  \* cse: valueEqClass
    pNum,          \* cse: pNum
    ri,            \* cse: index i of the loop over partition
    changed,       \* cse: changed
    sdom,          \* cse: sdom
    rewrite,       \* cse: rewrite (0 = nil)
    copiedSelects, \* cse: copiedSelects
    antOut,        \* hoist: s.antOut, per block the set of anticipated classes
    hoistDone,     \* hoist: s.done
    hoists,        \* hoist: the number of values hoisted
    lq,            \* licm: the loops still to be processed, in processing order
    nmove,         \* licm: LICM MOVES
    noprehdr,      \* licm: LICM NOPREHDR
    blocks,        \* trim: f.Blocks, the ids of the blocks of the function
    log            \* what the pass has done so far, one record per step

xvars == <<input, at, env, steps>>
fvars == <<fop, fk, fa, fres>>
cvars == <<partition, valueEqClass, pNum, ri, changed, sdom, rewrite, copiedSelects>>
svars == <<cells, exec, flowlist, ssalist, run, ir1>>
pvars == <<antOut, hoistDone, hoists, lq, nmove, noprehdr, blocks, log>>
vars == <<fn0, fn, pc, svars, xvars, fvars, cvars, pvars>>

State == [cells |-> cells, exec |-> exec, flowlist |-> flowlist,
          ssalist |-> ssalist, panic |-> FALSE]

\* Install the analysis state s after a step of the main loop.
Install(s) ==
    /\ cells' = s.cells
    /\ exec' = s.exec
    /\ flowlist' = s.flowlist
    /\ ssalist' = s.ssalist
    /\ pc' = IF s.panic THEN "panic"
             ELSE IF Len(s.flowlist) > 0 \/ Len(s.ssalist) > 0 THEN "loop"
             ELSE "rewrite"

\* The variables of sccp before it is called on fn0.
SccpInit ==
    /\ cells = InitState(fn0).cells
    /\ exec = {}
    /\ flowlist = <<>>
    /\ ssalist = <<>>
    /\ run = 1
    /\ ir1 = fn0
    /\ input = 0
    /\ at = 0
    /\ env = [v \in 1..NumValues(fn0) |-> 0]
    /\ steps = 0

\* The variables of a fold applied on its own, unused.
FoldIdle == fop = "" /\ fk = <<>> /\ fa = <<>> /\ fres = FoldOk(latticeTop, 0)

\* The variables of hoist, licm and trim before they are called.
PassIdle ==
    /\ antOut = <<>>
    /\ hoistDone = {}
    /\ hoists = 0
    /\ lq = <<>>
    /\ nmove = 0
    /\ noprehdr = 0
    /\ blocks = <<>>
    /\ log = <<>>

\* The variables of cse before it is called.
CseInit ==
    /\ partition = <<>>
    /\ valueEqClass = <<>>
    /\ pNum = 0
    /\ ri = 0
    /\ changed = FALSE
    /\ sdom = <<>>
    /\ rewrite = <<>>
    /\ copiedSelects = <<>>

Init ==
    /\ fn0 \in Funcs
    /\ fn = fn0
    /\ pc = "start"
    /\ SccpInit
    /\ FoldIdle
    /\ CseInit
    /\ PassIdle

\* s.visitExprs(f.Entry)
VisitEntry ==
    /\ pc = "start"
    /\ Install(visitExprs(fn, State, 1))
    /\ UNCHANGED <<fn0, pvars, fn, run, ir1, xvars, fvars, cvars>>

\* One iteration of the main loop, flow worklist non-empty.
PopFlow ==
    /\ pc = "loop"
    /\ Len(flowlist) > 0
    /\ Install(LoopStep(fn, State))
    /\ UNCHANGED <<fn0, pvars, fn, run, ir1, xvars, fvars, cvars>>

\* One iteration of the main loop, flow worklist empty.
PopSSA ==
    /\ pc = "loop"
    /\ Len(flowlist) = 0
    /\ Len(ssalist) > 0
    /\ Install(LoopStep(fn, State))
    /\ UNCHANGED <<fn0, pvars, fn, run, ir1, xvars, fvars, cvars>>

IsBoolean(t) == t = "bool"
IsInteger(t) == t \in {"int8", "int16", "int32", "int64"}
Size(t) == CASE t \in {"bool", "int8"} -> 1 [] t = "int16" -> 2
             [] t \in {"int32", "float32"} -> 4 [] OTHER -> 8

\* A variant of the rewrite switch that looks at the size only.
ConstOpBySize(t) ==
    CASE Size(t) = 1 -> "Const8" [] Size(t) = 2 -> "Const16"
      [] Size(t) = 4 -> "Const32" [] Size(t) = 8 -> "Const64"

\* The constant opcode the rewrite switch selects for a type.
ConstOpFor(t) ==
    IF IsBoolean(t) THEN "ConstBool"
    ELSE CASE Size(t) = 1 -> "Const8" [] Size(t) = 2 -> "Const16"
           [] Size(t) = 4 -> "Const32" [] Size(t) = 8 -> "Const64"

\* Is value v replaced by a constant given the final cells?
Rewritten(f, cs, v) == ~isConst(Op(f, v)) /\ cs[v].kind = latticeConst

\* v.reset(op); v.AuxInt = lv.bits
RewriteValue(f, cs, v) ==
    IF Rewritten(f, cs, v)
    THEN [f.vals[v] EXCEPT !.op = ConstOpFor(f.vals[v].typ), !.args = <<>>,
                           !.aux = cs[v].bits, !.sym = ""]
    ELSE f.vals[v]

\* "Replace operations with the corresponding constants."
Rewrite ==
    /\ pc = "rewrite"
    /\ fn' = [fn EXCEPT !.vals = [v \in 1..NumValues(fn) |-> RewriteValue(fn, cells, v)]]
    /\ pc' = "done"
    /\ ir1' = IF run = 1 THEN fn' ELSE ir1
    /\ UNCHANGED <<fn0, pvars, cells, exec, flowlist, ssalist, run, xvars, fvars, cvars>>

\* sccp called again on the function it returned.
Rerun ==
    /\ pc = "done"
    /\ run = 1
    /\ run' = 2
    /\ cells' = InitState(fn).cells
    /\ exec' = {}
    /\ flowlist' = <<>>
    /\ ssalist' = <<>>
    /\ pc' = "start"
    /\ UNCHANGED <<fn0, pvars, fn, ir1, xvars, fvars, cvars>>

\* ------------------------------------------------------------------------
\* Execution of the function handed to sccp: the meaning of the opcodes on
\* sign-extended 8-bit integers and booleans.  t is TRUE when the
\* operation traps (integer division by zero).
CV(x) == [t |-> FALSE, v |-> x]
Trapped == [t |-> TRUE, v |-> 0]

ConcreteOp(op, a, aux, in) ==
    CASE op \in {"Const8", "ConstBool"} -> CV(aux)
      [] op = "Arg" -> CV(in)
      [] op = "Copy" -> CV(a[1])
      [] op = "Add8" -> CV(Int8(a[1] + a[2]))
      [] op = "Sub8" -> CV(Int8(a[1] - a[2]))
      [] op = "Mul8" -> CV(Int8(a[1] * a[2]))
      [] op = "Div8" -> IF a[2] = 0 THEN Trapped ELSE CV(Int8(TruncDiv(a[1], a[2])))
      [] op = "Div8u" -> IF a[2] = 0 THEN Trapped
                         ELSE CV(Int8(Uint8(a[1]) \div Uint8(a[2])))
      [] op = "Neg8" -> CV(Int8(-a[1]))
      [] op = "Com8" -> CV(Int8(-a[1] - 1))
      [] op \in {"Eq8", "EqB"} -> CV(b2i(a[1] = a[2]))
      [] op \in {"Neq8", "NeqB"} -> CV(b2i(a[1] # a[2]))
      [] op = "Less8" -> CV(b2i(a[1] < a[2]))
      [] op = "Leq8" -> CV(b2i(a[1] <= a[2]))
      [] op = "Greater8" -> CV(b2i(a[1] > a[2]))
      [] op = "Geq8" -> CV(b2i(a[1] >= a[2]))
      [] op = "Less8U" -> CV(b2i(Uint8(a[1]) < Uint8(a[2])))
      [] op = "Leq8U" -> CV(b2i(Uint8(a[1]) <= Uint8(a[2])))
      [] op = "Greater8U" -> CV(b2i(Uint8(a[1]) > Uint8(a[2])))
      [] op = "Geq8U" -> CV(b2i(Uint8(a[1]) >= Uint8(a[2])))
      [] op = "Not" -> CV(1 - a[1])
      [] op = "AndB" -> CV(b2i(a[1] = 1 /\ a[2] = 1))
      [] op = "OrB" -> CV(b2i(a[1] = 1 \/ a[2] = 1))

\* The value of v when block b executes with the values e of the phis of b
\* and of the blocks executed before.
RECURSIVE ConcreteValue(_, _, _, _, _)
ConcreteValue(f, e, b, v, in) ==
    IF BlockOf(f, v) # b \/ Op(f, v) = "Phi" THEN CV(e[v])
    ELSE LET as == [i \in 1..Len(Args(f, v)) |-> ConcreteValue(f, e, b, Args(f, v)[i], in)]
         IN IF \E i \in 1..Len(as) : as[i].t THEN Trapped
            ELSE ConcreteOp(Op(f, v), [i \in 1..Len(as) |-> as[i].v], AuxInt(f, v), in)

InBlock(f, b) == {f.order[b][i] : i \in 1..Len(f.order[b])}

\* Executing block b entered through its predecessor slot i (0: entry).
ExecBlock(f, e, b, i, in) ==
    LET e1 == [v \in 1..NumValues(f) |->
                 IF v \in InBlock(f, b) /\ Op(f, v) = "Phi" THEN e[Args(f, v)[i]] ELSE e[v]]
        cv == [v \in 1..NumValues(f) |-> ConcreteValue(f, e1, b, v, in)]
    IN [trap |-> \E v \in InBlock(f, b) : cv[v].t,
        env |-> [v \in 1..NumValues(f) |-> cv[v].v]]

MaxExecSteps == 4

\* The function starts executing with some argument value.
ExecStart ==
    /\ pc = "done"
    /\ run = 1
    /\ \E in \in {0, 1} :
         LET r == ExecBlock(fn0, env, 1, 0, in)
         IN /\ input' = in
            /\ at' = 1
            /\ env' = r.env
            /\ pc' = IF r.trap THEN "trapped" ELSE "exec"
    /\ steps' = 1
    /\ UNCHANGED <<fn0, pvars, fn, cells, exec, flowlist, ssalist, run, ir1, fvars, cvars>>

\* The edge the executing block leaves through.
TakenEdge(f, b, e) ==
    IF f.kinds[b] = "If" THEN (IF e[f.ctl[b]] # 0 THEN f.succs[b][1] ELSE f.succs[b][2])
    ELSE f.succs[b][1]

ExecStep ==
    /\ pc = "exec"
    /\ Len(fn0.succs[at]) > 0
    /\ steps < MaxExecSteps
    /\ LET e == TakenEdge(fn0, at, env)
           r == ExecBlock(fn0, env, e.b, e.i, input)
       IN /\ at' = e.b
          /\ env' = r.env
          /\ pc' = IF r.trap THEN "trapped" ELSE "exec"
    /\ steps' = steps + 1
    /\ UNCHANGED <<fn0, pvars, fn, cells, exec, flowlist, ssalist, run, ir1, input, fvars, cvars>>

Next == VisitEntry \/ PopFlow \/ PopSSA \/ Rewrite \/ Rerun \/ ExecStart \/ ExecStep

Spec == Init /\ [][Next]_vars

\* ------------------------------------------------------------------------
\* Properties of sccp.

\* The lattice order TOP < CONST < BOTTOM on cells: n is o, or below o.
Lower(o, n) ==
    \/ o.kind = n.kind /\ (o.kind = latticeConst => o.bits = n.bits)
    \/ o.kind < n.kind

\* C1 (SCCP correctness): every value of the executing block that sccp
\* rewrote to a constant evaluates, from its original opcode and arguments
\* on this execution, to the AuxInt it was rewritten to.
C1_RewrittenEqualsExecuted ==
    \A v \in (IF pc = "exec" THEN InBlock(fn0, at) ELSE {}) :
        Rewritten(fn0, cells, v) =>
            (ir1.vals[v].aux = env[v] /\ cells[v].bits = env[v])

\* C2 (SCCP termination): the main loop is left only with both the flow
\* worklist and the SSA worklist empty.
C2_LoopEndsWithEmptyWorklists ==
    pc \notin {"start", "loop"} => (flowlist = <<>> /\ ssalist = <<>>)

\* C3 (SCCP lattice monotonicity): a step of the analysis moves no cell up
\* the order TOP < CONST < BOTTOM and changes no constant.
MonoStep ==
    (pc \in {"start", "loop"} /\ pc' # "start") =>
        (\A v \in DOMAIN cells : Lower(cells[v], cells'[v]))
C3_LatticeMonotone == [][MonoStep]_vars

\* C5 (SCCP branch elimination): after sccp, an If block whose control is
\* CONST 0 has no executable edge to successor 0, and one whose control is
\* a nonzero CONST has no executable edge to successor 1.
C5_BranchElimination ==
    pc = "done" =>
        \A b \in 1..NumBlocks(fn) :
            (fn.kinds[b] = "If" /\ cells[fn.ctl[b]].kind = latticeConst) =>
                IF cells[fn.ctl[b]].bits = 0
                THEN fn.succs[b][1] \notin exec
                ELSE fn.succs[b][2] \notin exec

\* C8 (SCCP idempotence): the IR after the second run of sccp is the IR
\* after the first.
C8_Idempotent == (run = 2 /\ pc = "done") => fn = ir1

\* ------------------------------------------------------------------------
\* sccp with the worklists popped in any order: the main loop takes any
\* entry of the flow worklist or of the SSA worklist.
PopFlowAny ==
    /\ pc = "loop"
    /\ \E i \in 1..Len(flowlist) : Install(FlowStep(fn, State, i))
    /\ UNCHANGED <<fn0, pvars, fn, run, ir1, xvars, fvars, cvars>>

PopSSAAny ==
    /\ pc = "loop"
    /\ \E i \in 1..Len(ssalist) : Install(SSAStep(fn, State, i))
    /\ UNCHANGED <<fn0, pvars, fn, run, ir1, xvars, fvars, cvars>>

NextAnyOrder == VisitEntry \/ PopFlowAny \/ PopSSAAny \/ Rewrite

SpecAnyOrder == Init /\ [][NextAnyOrder]_vars

\* The analysis as sccp runs it: the entry block, then the main loop until
\* both worklists are empty (or a fold panics).
RECURSIVE Drain(_, _)
Drain(f, s) ==
    IF s.panic \/ (Len(s.flowlist) = 0 /\ Len(s.ssalist) = 0) THEN s
    ELSE Drain(f, LoopStep(f, s))

Analysis(f) == Drain(f, visitExprs(f, InitState(f), 1))

SameLV(x, y) == x.kind = y.kind /\ (x.kind = latticeConst => x.bits = y.bits)

\* C7 (SCCP order independence): a run that pops the worklists in any order
\* ends with the cells and the executable edges of the run in LIFO order.
C7_OrderIndependent ==
    pc = "done" =>
        LET r == Analysis(fn0)
        IN /\ ~r.panic
           /\ r.exec = exec
           /\ \A v \in DOMAIN cells : SameLV(cells[v], r.cells[v])

\* ------------------------------------------------------------------------
\* A fold function applied on its own, as visitExpr applies it: to the
\* kinds and bits of the argument cells.
DivOps == {"Div8", "Div16", "Div8u", "Div16u"}
UnaryOps == {"Not", "Neg8", "Neg16", "Com8", "Com16", "Copy",
             "SignExt8to16", "ZeroExt8to16", "Trunc16to8",
             "Cvt32Fto32", "Cvt32Fto64F", "Cvt64Fto32F"}
Int16ArgOps == {"Add16", "Sub16", "Mul16", "Neg16", "Com16", "Div16", "Div16u", "Trunc16to8"}
K16 == K8 \cup {-32768, 32767}
Float32ArgOps == {"Cvt32Fto32", "Cvt32Fto64F"}
Float64ArgOps == {"Cvt64Fto32F"}
BoolArgOps == {"AndB", "OrB", "EqB", "NeqB", "Not"}
Kinds == {latticeTop, latticeConst, latticeBottom}

NumArgs(op) == IF op \in UnaryOps THEN 1 ELSE 2
ArgBits(op) ==
    IF op \in BoolArgOps THEN KB
    ELSE IF op \in Int16ArgOps THEN K16
    ELSE IF op \in Float32ArgOps THEN {f32i(x) : x \in Floats}
    ELSE IF op \in Float64ArgOps THEN {f64i(x) : x \in Floats}
    ELSE K8

\* The variables of sccp and of the function, unused.
SccpIdle ==
    /\ fn0 = <<>>
    /\ fn = <<>>
    /\ cells = <<>>
    /\ exec = {}
    /\ flowlist = <<>>
    /\ ssalist = <<>>
    /\ run = 0
    /\ ir1 = <<>>
    /\ input = 0
    /\ at = 0
    /\ env = <<>>
    /\ steps = 0

\* A cell that is TOP holds the zero bits it was created with; the simple
\* folds are called with constant arguments only.
InitFold ==
    /\ SccpIdle
    /\ CseInit
    /\ PassIdle
    /\ pc = "fold"
    /\ fop \in GenOps \cup SimpleOps
    /\ fk \in [1..NumArgs(fop) -> (IF fop \in GenOps THEN Kinds ELSE {latticeConst})]
    /\ fa \in [1..NumArgs(fop) -> ArgBits(fop)]
    /\ \A i \in 1..NumArgs(fop) : fk[i] = latticeTop => fa[i] = 0
    /\ fres = FoldOk(latticeTop, 0)

\* new = t.genFn(kinds, args)
ApplyGenFn ==
    /\ pc = "fold"
    /\ getFoldFn(fop).gen
    /\ fres' = foldMapGenFn(fop, fk, fa)
    /\ pc' = IF fres'.trap THEN "foldpanic" ELSE "folded"
    /\ UNCHANGED <<fn0, pvars, fn, svars, xvars, fop, fk, fa, cvars>>

\* new.kind = latticeConst; new.bits = t.fn(args)
ApplyFn ==
    /\ pc = "fold"
    /\ ~getFoldFn(fop).gen
    /\ fres' = FoldOk(latticeConst, foldMapFn(fop, fa))
    /\ pc' = "folded"
    /\ UNCHANGED <<fn0, pvars, fn, svars, xvars, fop, fk, fa, cvars>>

NextFold == ApplyGenFn \/ ApplyFn

SpecFold == InitFold /\ [][NextFold]_vars

\* C4 (SCCP division by constant zero): a division fold whose arguments are
\* both CONST and whose divisor has bits 0 returns BOTTOM and does not
\* perform the division.
C4_DivByConstZeroIsBottom ==
    (pc \in {"folded", "foldpanic"} /\ fop \in DivOps
        /\ fk = <<latticeConst, latticeConst>> /\ fa[2] = 0) =>
        (~fres.trap /\ fres.kind = latticeBottom)

\* C6 (SCCP logical short-circuit): AndB with an argument CONST 0 in either
\* position folds to CONST 0, and OrB with an argument CONST 1 folds to
\* CONST 1, whatever the kind of the other argument.
C6_ShortCircuit ==
    pc \in {"folded", "foldpanic"} =>
        /\ (fop = "AndB" /\ \E i \in 1..2 : fk[i] = latticeConst /\ fa[i] = 0)
              => fres = FoldOk(latticeConst, 0)
        /\ (fop = "OrB" /\ \E i \in 1..2 : fk[i] = latticeConst /\ fa[i] = 1)
              => fres = FoldOk(latticeConst, 1)

\* AndB was folded with a BOTTOM first argument and a CONST 0 second one.
C6_Witness ==
    /\ pc = "folded"
    /\ fop = "AndB"
    /\ fk = <<latticeBottom, latticeConst>>
    /\ fa[2] = 0
    /\ fres.kind = latticeConst

\* ------------------------------------------------------------------------
\* cse(f): common subexpression elimination.
\* Types of the values cse is modelled on, and their predicates.
IsMemory(t) == t = "mem"
IsTuple(t) == t \in {"tuple", "tuplemem"}
TypeRank(t) == IndexOf(<<"bool", "int64", "ptr", "mem", "tuple", "tuplemem">>, t)

\* The opcode table: numbering and the commutative flag.
OpNum(op) ==
    IndexOf(<<"Arg", "InitMem", "Phi", "Add64", "Mul64", "AtomicLoad64",
              "Mul64uhilo", "Select0", "Select1", "NilCheck">>, op)
commutative(op) == op \in {"Add64", "Mul64"}

Aux(f, v) == f.vals[v].sym

\* The dominator service.  Dominates is the definition: every path from the
\* entry to b passes through a.  The tree sdom links every block to its
\* immediate dominator; domorder numbers the tree in preorder.
SuccBlocks(f, b) == {f.succs[b][i].b : i \in 1..Len(f.succs[b])}

RECURSIVE ReachAvoiding(_, _, _)
ReachAvoiding(f, a, seen) ==
    LET next == seen \cup {y \in UNION {SuccBlocks(f, x) : x \in seen} : y # a}
    IN IF next = seen THEN seen ELSE ReachAvoiding(f, a, next)

Dominates(f, a, b) ==
    \/ a = b
    \/ /\ b \in ReachAvoiding(f, 0, {1})
       /\ b \notin ReachAvoiding(f, a, IF a = 1 THEN {} ELSE {1})

\* The strict dominators of b and the immediate one, given the relation
\* dom = {<<a, b>> : a dominates b}.
StrictDoms(dom, b) == {p[1] : p \in {q \in dom : q[2] = b /\ q[1] # b}}
idom(dom, b) == CHOOSE d \in StrictDoms(dom, b) : \A a \in StrictDoms(dom, b) : <<a, d>> \in dom

\* The tree: parent[b] is the immediate dominator of b (0: none).
RECURSIVE ParentsFrom(_, _, _)
ParentsFrom(dom, n, b) ==
    IF b > n THEN <<>>
    ELSE <<IF StrictDoms(dom, b) = {} THEN 0 ELSE idom(dom, b)>> \o ParentsFrom(dom, n, b + 1)

Parents(f) ==
    ParentsFrom({p \in (1..NumBlocks(f)) \X (1..NumBlocks(f)) : Dominates(f, p[1], p[2])},
                NumBlocks(f), 1)

RECURSIVE isAncestorEq(_, _, _)
isAncestorEq(t, a, b) ==
    \/ a = b
    \/ t.parent[b] # 0 /\ isAncestorEq(t, a, t.parent[b])

RECURSIVE SortedSeq(_)
SortedSeq(S) ==
    IF S = {} THEN <<>>
    ELSE LET m == CHOOSE x \in S : \A y \in S : x <= y
         IN <<m>> \o SortedSeq(S \ {m})

RECURSIVE PreorderFrom(_, _)
PreorderFrom(par, b) ==
    LET kids == SortedSeq({c \in DOMAIN par : par[c] = b})
    IN <<b>> \o Concat([i \in 1..Len(kids) |-> PreorderFrom(par, kids[i])], 1)

\* f.sdom()
NewSparseTree(f) ==
    LET par == Parents(f)
        pre == PreorderFrom(par, 1)
    IN [parent |-> par,
        order |-> [b \in 1..NumBlocks(f) |->
                     IF \E i \in 1..Len(pre) : pre[i] = b THEN IndexOf(pre, b) ELSE 0]]

domorder(t, b) == t.order[b]

\* s with x inserted behind position j.
InsertAfter(s, j, x) == SubSeq(s, 1, j) \o <<x>> \o SubSeq(s, j + 1, Len(s))

Elems(s) == {s[i] : i \in 1..Len(s)}

\* auxIDs: the Aux payloads (nil included) numbered by first appearance.
RECURSIVE AuxSeqFrom(_, _, _, _)
AuxSeqFrom(f, vs, i, acc) ==
    IF i > Len(vs) THEN acc
    ELSE AuxSeqFrom(f, vs, i + 1,
                    IF Aux(f, vs[i]) \in Elems(acc) THEN acc ELSE Append(acc, Aux(f, vs[i])))

auxIDs(f) == AuxSeqFrom(f, ValuesInOrder(f), 1, <<>>)

lt2Cmp(isLt) == IF isLt THEN "lt" ELSE "gt"

cmpVal(f, ids, v, w) ==
    IF Op(f, v) # Op(f, w) THEN lt2Cmp(OpNum(Op(f, v)) < OpNum(Op(f, w)))
    ELSE IF AuxInt(f, v) # AuxInt(f, w) THEN lt2Cmp(AuxInt(f, v) < AuxInt(f, w))
    ELSE IF Len(Args(f, v)) # Len(Args(f, w)) THEN lt2Cmp(Len(Args(f, v)) < Len(Args(f, w)))
    ELSE IF Op(f, v) = "Phi" /\ BlockOf(f, v) # BlockOf(f, w)
         THEN lt2Cmp(BlockOf(f, v) < BlockOf(f, w))
    ELSE IF IsMemory(Type(f, v)) THEN lt2Cmp(v < w)
    ELSE IF Type(f, v) # Type(f, w) THEN lt2Cmp(TypeRank(Type(f, v)) < TypeRank(Type(f, w)))
    ELSE IF Aux(f, v) # Aux(f, w)
         THEN IF Aux(f, v) = "" THEN "lt"
              ELSE IF Aux(f, w) = "" THEN "gt"
              ELSE lt2Cmp(IndexOf(ids, Aux(f, v)) < IndexOf(ids, Aux(f, w)))
    ELSE "eq"

\* sortvalues.Less
sortvaluesLess(f, ids, v, w) ==
    LET c == cmpVal(f, ids, v, w) IN IF c # "eq" THEN c = "lt" ELSE v < w

\* The end of the run of values equal to a[1], from position j on.
RECURSIVE RunEnd(_, _, _, _)
RunEnd(f, ids, a, j) ==
    IF j > Len(a) \/ cmpVal(f, ids, a[1], a[j]) # "eq" THEN j ELSE RunEnd(f, ids, a, j + 1)

RECURSIVE RunsOf(_, _, _)
RunsOf(f, ids, a) ==
    IF Len(a) = 0 THEN <<>>
    ELSE LET j == RunEnd(f, ids, a, 2)
         IN (IF j > 2 THEN <<SubSeq(a, 1, j - 1)>> ELSE <<>>)
            \o RunsOf(f, ids, SubSeq(a, j, Len(a)))

\* sort.Sort(sortvalues{a, auxIDs}): sortvalues.Less is a total order, so
\* the result is the one of an insertion sort.
RECURSIVE sortvaluesSink(_, _, _, _, _)
sortvaluesSink(f, ids, s, x, j) ==
    IF j >= 1 /\ sortvaluesLess(f, ids, x, s[j]) THEN sortvaluesSink(f, ids, s, x, j - 1)
    ELSE j

RECURSIVE sortvalues(_, _, _, _, _)
sortvalues(f, ids, done, a, i) ==
    IF i > Len(a) THEN done
    ELSE sortvalues(f, ids,
                    InsertAfter(done, sortvaluesSink(f, ids, done, a[i], Len(done)), a[i]),
                    a, i + 1)

partitionValues(f, a, ids) == RunsOf(f, ids, sortvalues(f, ids, <<>>, a, 1))

\* A value enters the initial partition unless its type is memory.
cseCandidate(f, v) == ~IsMemory(Type(f, v))

\* The arguments of a binary commutative value, ordered by id.
orderedArgs(f, v) ==
    IF cseCandidate(f, v) /\ commutative(Op(f, v)) /\ Len(Args(f, v)) = 2
       /\ Args(f, v)[2] < Args(f, v)[1]
    THEN <<Args(f, v)[2], Args(f, v)[1]>>
    ELSE Args(f, v)

\* A variant that gives every value alone in its class the same number.
uniqueClassShared(v) == -1

\* The class number of a value that is alone in its class.
uniqueClass(v) == -v

\* cse up to the refinement loop: the function with its commutative
\* arguments ordered, the initial partition and valueEqClass.
cseInitial(f) ==
    LET g == [f EXCEPT !.vals = [v \in 1..NumValues(f) |->
                                   [f.vals[v] EXCEPT !.args = orderedArgs(f, v)]]]
        a == SelectSeq(ValuesInOrder(g), LAMBDA v : cseCandidate(g, v))
        part == partitionValues(g, a, auxIDs(g))
    IN [f |-> g,
        partition |-> part,
        valueEqClass |-> [v \in 1..NumValues(g) |->
                            IF \E i \in 1..Len(part) : v \in Elems(part[i])
                            THEN (CHOOSE i \in 1..Len(part) : v \in Elems(part[i])) - 1
                            ELSE uniqueClass(v)],
        pNum |-> Len(part)]

\* partitionByArgClass.Less
RECURSIVE argClassLessFrom(_, _, _, _, _)
argClassLessFrom(f, eq, v, w, k) ==
    IF k > Len(Args(f, v)) THEN FALSE
    ELSE IF eq[Args(f, v)[k]] < eq[Args(f, w)[k]] THEN TRUE
    ELSE IF eq[Args(f, v)[k]] > eq[Args(f, w)[k]] THEN FALSE
    ELSE argClassLessFrom(f, eq, v, w, k + 1)

argClassLess(f, eq, v, w) == argClassLessFrom(f, eq, v, w, 1)

\* sort.Sort(partitionByArgClass{e, valueEqClass}): on a slice of fewer than
\* seven elements sort.Sort is an insertion sort.
RECURSIVE argClassSink(_, _, _, _, _)
argClassSink(f, eq, s, x, j) ==
    IF j >= 1 /\ argClassLess(f, eq, x, s[j]) THEN argClassSink(f, eq, s, x, j - 1) ELSE j

RECURSIVE partitionByArgClass(_, _, _, _, _)
partitionByArgClass(f, eq, done, e, i) ==
    IF i > Len(e) THEN done
    ELSE partitionByArgClass(f, eq,
                             InsertAfter(done, argClassSink(f, eq, done, e[i], Len(done)), e[i]),
                             e, i + 1)

\* A variant that compares the first argument only.
eqArgsFirst(f, eq, v, w) ==
    Len(Args(f, v)) = 0 \/ eq[Args(f, v)[1]] = eq[Args(f, w)[1]]

eqArgs(f, eq, v, w) ==
    \A k \in 1..Len(Args(f, v)) : eq[Args(f, v)[k]] = eq[Args(f, w)[k]]

\* splitPoints of the sorted class e: 0, then every j with e[j-1], e[j]
\* of unequal argument classes (positions counted from 0, as in the source).
splitPoints(f, eq, e) ==
    <<0>> \o SortedSeq({j \in 1..(Len(e) - 1) : ~eqArgs(f, eq, e[j], e[j + 1])})

\* The new classes made of the parts of e after the first one.
RECURSIVE addParts(_, _, _, _)
addParts(st, e, sp, j) ==
    IF j > Len(sp) - 1 THEN st
    ELSE LET part == SubSeq(e, sp[j] + 1, sp[j + 1])
         IN IF Len(part) = 1
            THEN addParts([st EXCEPT !.valueEqClass[part[1]] = uniqueClass(part[1])],
                          e, sp, j + 1)
            ELSE addParts([st EXCEPT
                             !.valueEqClass = [v \in DOMAIN @ |->
                                                 IF v \in Elems(part) THEN st.pNum ELSE @[v]],
                             !.pNum = @ + 1,
                             !.partition = Append(@, part)],
                          e, sp, j + 1)

\* The body of the loop over partition for index i (from 1); split tells
\* whether the class was split (the source then stays at the same index).
refineClass(f, st, i) ==
    LET e == partitionByArgClass(f, st.valueEqClass, <<>>, st.partition[i], 1)
        sp == splitPoints(f, st.valueEqClass, e)
        first == SubSeq(e, sp[1] + 1, IF Len(sp) > 1 THEN sp[2] ELSE Len(e))
        st1 == [st EXCEPT !.partition[i] = first,
                          !.valueEqClass = IF Len(first) = 1
                                           THEN [@ EXCEPT ![first[1]] = uniqueClass(first[1])]
                                           ELSE @]
    IN IF Len(sp) = 1 THEN [st EXCEPT !.partition[i] = e, !.split = FALSE]
       ELSE [addParts(st1, e, Append(sp, Len(e)), 2) EXCEPT !.split = TRUE]

\* partitionByDom.Less
domLess(f, t, v, w) == domorder(t, BlockOf(f, v)) < domorder(t, BlockOf(f, w))

\* sort.Sort(partitionByDom{e, sdom}), an insertion sort as above.
RECURSIVE domSink(_, _, _, _, _)
domSink(f, t, s, x, j) ==
    IF j >= 1 /\ domLess(f, t, x, s[j]) THEN domSink(f, t, s, x, j - 1) ELSE j

RECURSIVE partitionByDom(_, _, _, _, _)
partitionByDom(f, t, done, e, i) ==
    IF i > Len(e) THEN done
    ELSE partitionByDom(f, t, InsertAfter(done, domSink(f, t, done, e[i], Len(done)), e[i]),
                        e, i + 1)

\* A variant of the replacement test that ignores dominance.
canReplaceAlways(f, t, v, w) == TRUE

\* The test of the replacement step: v's block dominates or is w's block.
canReplace(f, t, v, w) == isAncestorEq(t, BlockOf(f, v), BlockOf(f, w))

\* A variant of the inner loop that stops after one replacement.
replaceByNext(f, t, er, v, j) ==
    IF j > Len(er.e) THEN er
    ELSE IF er.e[j] = 0 \/ ~canReplace(f, t, v, er.e[j]) THEN er
    ELSE [e |-> [er.e EXCEPT ![j] = 0], rewrite |-> [er.rewrite EXCEPT ![er.e[j]] = v]]

\* The inner loop: replace the elements after position i that v dominates
\* (0 = nil), up to the first one it does not.
RECURSIVE replaceBy(_, _, _, _, _)
replaceBy(f, t, er, v, j) ==
    IF j > Len(er.e) THEN er
    ELSE IF er.e[j] = 0 THEN replaceBy(f, t, er, v, j + 1)
    ELSE IF canReplace(f, t, v, er.e[j])
         THEN replaceBy(f, t, [e |-> [er.e EXCEPT ![j] = 0],
                               rewrite |-> [er.rewrite EXCEPT ![er.e[j]] = v]], v, j + 1)
    ELSE er

RECURSIVE replaceFrom(_, _, _, _)
replaceFrom(f, t, er, i) ==
    IF i > Len(er.e) - 1 THEN er
    ELSE IF er.e[i] = 0 THEN replaceFrom(f, t, er, i + 1)
    ELSE replaceFrom(f, t, replaceBy(f, t, er, er.e[i], i + 1), i + 1)

\* The replacement step on one class e, given the rewrites recorded so far.
replaceClass(f, t, e, rw) ==
    replaceFrom(f, t, [e |-> partitionByDom(f, t, <<>>, e, 1), rewrite |-> rw], 1)

\* v.copyInto(b): a new value with v's opcode, type, Aux, AuxInt and
\* arguments at the end of b's value list.
copyInto(f, v, b) ==
    [f EXCEPT !.vals = Append(@, f.vals[v]),
              !.order[b] = Append(@, Len(f.vals) + 1)]

\* The selector step on value v of block b; st = [f, rewrite, copied, panic].
selectValue(st, b, v) ==
    IF v > Len(st.rewrite) THEN [st EXCEPT !.panic = TRUE]
    ELSE IF st.rewrite[v] # 0 THEN st
    ELSE IF Op(st.f, v) \notin {"Select0", "Select1"} THEN st
    ELSE IF ~IsTuple(Type(st.f, Args(st.f, v)[1])) THEN [st EXCEPT !.panic = TRUE]
    ELSE LET t == st.rewrite[Args(st.f, v)[1]]
         IN IF t = 0 \/ BlockOf(st.f, t) = b THEN st
            ELSE LET cs == st.copied[t]
                     same == {i \in 1..Len(cs) : Op(st.f, cs[i]) = Op(st.f, v)}
                 IN IF same # {}
                    THEN [st EXCEPT !.rewrite[v] =
                                       cs[CHOOSE i \in same : \A j \in same : i <= j]]
                    ELSE [st EXCEPT !.f = copyInto(st.f, v, BlockOf(st.f, t)),
                                    !.rewrite[v] = Len(st.f.vals) + 1,
                                    !.copied[t] = Append(@, Len(st.f.vals) + 1)]

RECURSIVE selectValues(_, _, _, _)
selectValues(st, b, vs, i) ==
    IF i > Len(vs) \/ st.panic THEN st
    ELSE selectValues(selectValue(st, b, vs[i]), b, vs, i + 1)

RECURSIVE selectBlocks(_, _)
selectBlocks(st, b) ==
    IF b > NumBlocks(st.f) \/ st.panic THEN st
    ELSE selectBlocks(selectValues(st, b, st.f.order[b], 1), b + 1)

\* "Apply substitutions": the arguments and the controls rewritten.
applyRewrites(f, rw) ==
    [f EXCEPT
       !.vals = [v \in 1..NumValues(f) |->
                   [f.vals[v] EXCEPT !.args = [i \in 1..Len(f.vals[v].args) |->
                                                 IF rw[f.vals[v].args[i]] # 0
                                                 THEN rw[f.vals[v].args[i]]
                                                 ELSE f.vals[v].args[i]]]],
       !.ctl = [b \in 1..NumBlocks(f) |->
                  IF f.ctl[b] # 0 /\ rw[f.ctl[b]] # 0 /\ Op(f, f.ctl[b]) # "NilCheck"
                  THEN rw[f.ctl[b]]
                  ELSE f.ctl[b]]]

\* Does "Apply substitutions" index rewrite past its end?
applyOutOfRange(f, rw) ==
    \E v \in 1..NumValues(f) : \E i \in 1..Len(f.vals[v].args) : f.vals[v].args[i] > Len(rw)

\* ------------------------------------------------------------------------
\* The functions cse is run on.  The CFG is b1 -> b2; b2 -> b3, b4;
\* b3 -> b5; b4 -> b5.  b1 holds v1 = Arg {x}, v2 = Arg {y} (int64),
\* v3 = Arg {p} (pointer), v4 = Arg {c} (bool, the control of b2) and
\* v5 = InitMem.  A statement <<kind, block>> adds to its block:
\*   Add        : Add64 x y in b2 and b4, Add64 y x in b3 and b5
\*   ALoad      : AtomicLoad64 p mem, Select0 of it, Select1 of it (the
\*                new memory)
\*   Mul0, Mul1 : Mul64uhilo x y and its Select0, or its Select1
\* where mem is the memory state at that point of the block: the memory
\* values form one chain along every path, joined by a memory Phi in b5.
MaxStmts == 3

StmtKinds == {"Add", "ALoad", "Mul0", "Mul1"}
StmtBlocks == 2..5

StmtValues(kind, b, n, m) ==
    CASE kind = "Add" -> <<Val("Add64", IF b \in {2, 4} THEN <<1, 2>> ELSE <<2, 1>>,
                               0, "int64")>>
      [] kind = "ALoad" -> <<Val("AtomicLoad64", <<3, m>>, 0, "tuplemem"),
                             Val("Select0", <<n + 1>>, 0, "int64"),
                             Val("Select1", <<n + 1>>, 0, "mem")>>
      [] kind = "Mul0" -> <<Val("Mul64uhilo", <<1, 2>>, 0, "tuple"),
                            Val("Select0", <<n + 1>>, 0, "int64")>>
      [] kind = "Mul1" -> <<Val("Mul64uhilo", <<1, 2>>, 0, "tuple"),
                            Val("Select1", <<n + 1>>, 0, "int64")>>

\* The memory state after the statement.
StmtMem(kind, n, m) ==
    IF kind = "ALoad" THEN n + 3 ELSE m

\* bs = [vals, order, mem]: the values and value lists built so far and the
\* memory state at the end of every block.
Emit(bs, st) ==
    LET n == Len(bs.vals)
        b == st[2]
        vs == StmtValues(st[1], b, n, bs.mem[b])
        nm == StmtMem(st[1], n, bs.mem[b])
    IN [vals |-> bs.vals \o vs,
        order |-> [bs.order EXCEPT ![b] = @ \o [i \in 1..Len(vs) |-> n + i]],
        mem |-> [x \in 1..5 |-> IF x = b \/ b = 2 THEN nm ELSE bs.mem[x]]]

RECURSIVE EmitAll(_, _, _)
EmitAll(bs, sts, i) == IF i > Len(sts) THEN bs ELSE EmitAll(Emit(bs, sts[i]), sts, i + 1)

\* The memory entering b5.
JoinMem(bs) ==
    IF bs.mem[3] = bs.mem[4] THEN [bs EXCEPT !.mem[5] = bs.mem[3]]
    ELSE [vals |-> Append(bs.vals, Val("Phi", <<bs.mem[3], bs.mem[4]>>, 0, "mem")),
          order |-> [bs.order EXCEPT ![5] = Append(@, Len(bs.vals) + 1)],
          mem |-> [bs.mem EXCEPT ![5] = Len(bs.vals) + 1]]

\* The blocks and edges, without values.
CseCFG ==
    MkFunc(<<"Plain", "If", "Plain", "Plain", "Ret">>,
           << <<2>>, <<3, 4>>, <<5>>, <<5>>, <<>> >>, <<0, 4, 0, 0, 0>>,
           << <<>>, <<>>, <<>>, <<>>, <<>> >>, <<>>)

CseFunc(sts) ==
    LET base == [vals |-> <<ValAux("Arg", <<>>, 0, "int64", "x"),
                            ValAux("Arg", <<>>, 0, "int64", "y"),
                            ValAux("Arg", <<>>, 0, "ptr", "p"),
                            ValAux("Arg", <<>>, 0, "bool", "c"),
                            Val("InitMem", <<>>, 0, "mem")>>,
                 order |-> << <<1, 2, 3, 4, 5>>, <<>>, <<>>, <<>>, <<>> >>,
                 mem |-> [x \in 1..5 |-> 5]]
        s1 == EmitAll(base, SelectSeq(sts, LAMBDA st : st[2] < 5), 1)
        s2 == EmitAll(JoinMem(s1), SelectSeq(sts, LAMBDA st : st[2] = 5), 1)
    IN [CseCFG EXCEPT !.order = s2.order, !.vals = s2.vals]

\* The statement lists: up to MaxStmts statements, in block order.
StmtSeqs ==
    UNION {{[i \in 1..n |-> <<ks[i], bl[i]>>] :
               ks \in [1..n -> StmtKinds],
               bl \in {x \in [1..n -> StmtBlocks] : \A i \in 1..(n - 1) : x[i] <= x[i + 1]}} :
           n \in 1..MaxStmts}

InitCse ==
    /\ \E sts \in StmtSeqs : fn0 = CseFunc(sts)
    /\ fn = fn0
    /\ pc = "cse"
    /\ cells = <<>>
    /\ exec = {}
    /\ flowlist = <<>>
    /\ ssalist = <<>>
    /\ run = 0
    /\ ir1 = <<>>
    /\ input = 0
    /\ at = 0
    /\ env = <<>>
    /\ steps = 0
    /\ FoldIdle
    /\ CseInit
    /\ PassIdle

\* The initial partition and valueEqClass.
CsePartition ==
    /\ pc = "cse"
    /\ LET r == cseInitial(fn)
       IN /\ fn' = r.f
          /\ partition' = r.partition
          /\ valueEqClass' = r.valueEqClass
          /\ pNum' = r.pNum
    /\ ri' = 1
    /\ changed' = FALSE
    /\ pc' = "refine"
    /\ UNCHANGED <<fn0, pvars, svars, xvars, fvars, sdom, rewrite, copiedSelects>>

\* One iteration of "for i := 0; i < len(partition); i++".
CseRefineClass ==
    /\ pc = "refine"
    /\ ri <= Len(partition)
    /\ LET r == refineClass(fn, [partition |-> partition, valueEqClass |-> valueEqClass,
                                 pNum |-> pNum, split |-> FALSE], ri)
       IN /\ partition' = r.partition
          /\ valueEqClass' = r.valueEqClass
          /\ pNum' = r.pNum
          /\ ri' = IF r.split THEN ri ELSE ri + 1
          /\ changed' = (changed \/ r.split)
    /\ UNCHANGED <<fn0, pvars, fn, pc, svars, xvars, fvars, sdom, rewrite, copiedSelects>>

\* The end of a pass over partition: again if changed, else on to the
\* replacement step with rewrite all nil.
CseRefinePass ==
    /\ pc = "refine"
    /\ ri > Len(partition)
    /\ ri' = 1
    /\ changed' = FALSE
    /\ pc' = IF changed THEN "refine" ELSE IF Len(partition) = 0 THEN "selectors" ELSE "dom"
    /\ sdom' = IF changed THEN sdom ELSE NewSparseTree(fn)
    /\ rewrite' = IF changed THEN rewrite ELSE [v \in 1..NumValues(fn) |-> 0]
    /\ UNCHANGED <<fn0, pvars, fn, svars, xvars, fvars, partition, valueEqClass, pNum, copiedSelects>>

\* The replacement step on one class.
CseReplaceClass ==
    /\ pc = "dom"
    /\ ri <= Len(partition)
    /\ LET r == replaceClass(fn, sdom, partition[ri], rewrite)
       IN /\ partition' = [partition EXCEPT ![ri] = r.e]
          /\ rewrite' = r.rewrite
    /\ ri' = ri + 1
    /\ pc' = IF ri = Len(partition) THEN "selectors" ELSE "dom"
    /\ UNCHANGED <<fn0, pvars, fn, svars, xvars, fvars, valueEqClass, pNum, changed, sdom, copiedSelects>>

\* The selectors of rewritten tuple generators copied.
CseCopySelectors ==
    /\ pc = "selectors"
    /\ LET r == selectBlocks([f |-> fn, rewrite |-> rewrite,
                              copied |-> [v \in 1..Len(rewrite) |-> <<>>],
                              panic |-> FALSE], 1)
       IN /\ fn' = r.f
          /\ rewrite' = r.rewrite
          /\ copiedSelects' = r.copied
          /\ pc' = IF r.panic THEN "cse_panic" ELSE "apply"
    /\ UNCHANGED <<fn0, pvars, svars, xvars, fvars, partition, valueEqClass, pNum, ri, changed, sdom>>

\* The substitutions applied.
CseApply ==
    /\ pc = "apply"
    /\ IF applyOutOfRange(fn, rewrite)
       THEN fn' = fn /\ pc' = "cse_panic"
       ELSE fn' = applyRewrites(fn, rewrite) /\ pc' = "cse_done"
    /\ UNCHANGED <<fn0, pvars, svars, xvars, fvars, cvars>>

NextCse ==
    CsePartition \/ CseRefineClass \/ CseRefinePass \/ CseReplaceClass
        \/ CseCopySelectors \/ CseApply

SpecCse == InitCse /\ [][NextCse]_vars

\* The positions of cse from the replacement step on.
CseReplacing == {"dom", "selectors"}
CseAfterRefine == {"dom", "selectors", "apply", "cse_done", "cse_panic"}

\* C9 (CSE soundness): every rewrite of W to V recorded by the replacement
\* step has V and W in the same refined class, and V's block dominates or is
\* W's block.
C9_CseSoundness ==
    pc \in CseReplacing =>
        \A w \in DOMAIN rewrite :
            rewrite[w] # 0 =>
                /\ valueEqClass[w] >= 0
                /\ valueEqClass[rewrite[w]] = valueEqClass[w]
                /\ Dominates(fn, BlockOf(fn, rewrite[w]), BlockOf(fn, w))

\* The replacement step has rewritten a value to one of a block that
\* strictly dominates its own, and left a member of the same class alone.
C9_Witness ==
    /\ pc = "selectors"
    /\ \E w \in DOMAIN rewrite : \E u \in DOMAIN rewrite :
          /\ u # w
          /\ rewrite[w] # 0
          /\ rewrite[u] = rewrite[w]
          /\ BlockOf(fn, rewrite[w]) # BlockOf(fn, w)
          /\ BlockOf(fn, u) # BlockOf(fn, w)

\* C10 (CSE no memory cross): no rewrite is recorded for a memory-typed
\* value, and no value copied into another block is memory-typed.
C10_NoMemoryCross ==
    pc \in CseAfterRefine =>
        /\ \A w \in DOMAIN rewrite : IsMemory(Type(fn, w)) => rewrite[w] = 0
        /\ \A c \in (NumValues(fn0) + 1)..NumValues(fn) : ~IsMemory(Type(fn, c))

\* cse has copied a selector next to its new generator in a function that
\* holds a memory-typed selector of a tuple.
C10_Witness ==
    /\ pc = "cse_done"
    /\ NumValues(fn) > NumValues(fn0)
    /\ \E v \in 1..NumValues(fn0) : Op(fn, v) = "Select1" /\ IsMemory(Type(fn, v))

\* ------------------------------------------------------------------------
\* Hoisting after cse (hoistValues).  valueEqClass is a Go map: a value
\* with no entry reads as class 0.
isAncestor(t, a, b) == a # b /\ isAncestorEq(t, a, b)

IsVoid(t) == t = "void"

ClassOf(eq, v) == IF v \in DOMAIN eq THEN eq[v] ELSE 0

\* The control value test of canHoistValue: v == v.Block.Control.
IsControl(f, v) == f.ctl[BlockOf(f, v)] = v

cseCanHoistValue(f, v) ==
    /\ Op(f, v) # "Phi"
    /\ ~IsTuple(Type(f, v))
    /\ ~IsMemory(Type(f, v))
    /\ ~IsControl(f, v)

\* hoistValues, the loop over partition: every class keeps its non-nil
\* members that can be hoisted.
hoistCandidates(f, part) ==
    [i \in 1..Len(part) |-> SelectSeq(part[i], LAMBDA v : v # 0 /\ cseCanHoistValue(f, v))]

\* n of hoistValues: the number of members of the classes that kept two or more.
RECURSIVE hoistCount(_, _)
hoistCount(part, i) ==
    IF i > Len(part) THEN 0
    ELSE (IF Len(part[i]) >= 2 THEN Len(part[i]) ELSE 0) + hoistCount(part, i + 1)

\* postorder(f): depth first from the entry, successors in order.
\* st = [seen, post].
RECURSIVE postorderVisit(_, _, _)
RECURSIVE postorderSuccs(_, _, _, _)
postorderSuccs(f, st, b, i) ==
    IF i > Len(f.succs[b]) THEN st
    ELSE LET s == f.succs[b][i].b
         IN postorderSuccs(f, IF s \in st.seen THEN st ELSE postorderVisit(f, st, s), b, i + 1)

postorderVisit(f, st, b) ==
    LET r == postorderSuccs(f, [st EXCEPT !.seen = @ \cup {b}], b, 1)
    IN [r EXCEPT !.post = Append(@, b)]

postorder(f) == postorderVisit(f, [seen |-> {}, post |-> <<>>], 1).post

\* The classes computed in block b that have more than one member.
blockClasses(f, part, eq, b) ==
    {ClassOf(eq, f.order[b][k]) : k \in 1..Len(f.order[b])}
        \cap {id \in 0..(Len(part) - 1) : Len(part[id + 1]) > 1}

\* antOut of b from the antIn of its successors.
antOutOf(f, antIn, b) ==
    IF Len(f.succs[b]) = 0 THEN {}
    ELSE {id \in antIn[f.succs[b][1].b] :
             \A i \in 2..Len(f.succs[b]) : id \in antIn[f.succs[b][i].b]}

\* One pass of anticipatedExprs over the blocks in postorder;
\* st = [antIn, antOut, change].
RECURSIVE antPass(_, _, _, _, _, _)
antPass(f, part, eq, st, post, i) ==
    IF i > Len(post) THEN st
    ELSE LET b == post[i]
             out == antOutOf(f, st.antIn, b)
             s == out \cup blockClasses(f, part, eq, b)
         IN antPass(f, part, eq,
                    [antIn |-> [st.antIn EXCEPT ![b] = s],
                     antOut |-> [st.antOut EXCEPT ![b] = out],
                     change |-> st.change \/ s # st.antIn[b]],
                    post, i + 1)

RECURSIVE antFix(_, _, _, _, _)
antFix(f, part, eq, st, post) ==
    LET r == antPass(f, part, eq, [st EXCEPT !.change = FALSE], post, 1)
    IN IF r.change THEN antFix(f, part, eq, r, post) ELSE r

anticipatedExprs(f, part, eq) ==
    antFix(f, part, eq,
           [antIn |-> [b \in 1..NumBlocks(f) |-> {}],
            antOut |-> [b \in 1..NumBlocks(f) |-> {}],
            change |-> FALSE],
           postorder(f)).antOut

\* addHoistCandidate: the loop that removes the candidates b dominates.
RECURSIVE removeDominated(_, _, _, _)
removeDominated(t, ds, b, i) ==
    IF i > Len(ds) THEN ds
    ELSE IF isAncestor(t, b, ds[i].blk)
         THEN removeDominated(t, SubSeq([ds EXCEPT ![i].blk = ds[Len(ds)].blk], 1, Len(ds) - 1),
                              b, i)
         ELSE removeDominated(t, ds, b, i + 1)

addHoistCandidate(t, ds, b) ==
    IF \E i \in 1..Len(ds) : isAncestorEq(t, ds[i].blk, b) THEN ds
    ELSE Append(removeDominated(t, ds, b, 1), [blk |-> b, v |-> 0, vs |-> <<>>])

\* A variant of the test of hoistPlan that takes every class as anticipated.
anticipatedAlways(ant, d, classID) == TRUE

\* The test of hoistPlan: s.antOut[d.ID].contains(classID).
anticipatedAt(ant, d, classID) == classID \in ant[d]

\* hoistPlan, first loop: the candidate destinations.
RECURSIVE planCandidates(_, _, _, _, _)
planCandidates(hs, classID, e, ds, i) ==
    IF i > Len(e) THEN ds
    ELSE LET b == BlockOf(hs.f, e[i])
         IN IF Len(hs.f.preds[b]) # 1 THEN planCandidates(hs, classID, e, ds, i + 1)
            ELSE LET d == hs.f.preds[b][1].b
                 IN planCandidates(hs, classID, e,
                                   IF anticipatedAt(hs.antOut, d, classID)
                                   THEN addHoistCandidate(hs.t, ds, d) ELSE ds,
                                   i + 1)

\* hoistPlan, second loop: every member goes to the first destination that
\* strictly dominates its block.
RECURSIVE planDistribute(_, _, _, _)
planDistribute(hs, e, ds, i) ==
    IF i > Len(e) THEN ds
    ELSE LET fits == {k \in 1..Len(ds) : isAncestor(hs.t, ds[k].blk, BlockOf(hs.f, e[i]))}
         IN IF e[i] = 0 \/ fits = {} THEN planDistribute(hs, e, ds, i + 1)
            ELSE LET k == CHOOSE x \in fits : \A y \in fits : x <= y
                 IN planDistribute(hs, e, [ds EXCEPT ![k].vs = Append(@, e[i])], i + 1)

hoistPlan(hs, classID) ==
    LET e == hs.partition[classID + 1]
        ds == planCandidates(hs, classID, e, <<>>, 1)
    IN IF Len(ds) = 0 THEN <<>> ELSE planDistribute(hs, e, ds, 1)

availableOnExit(f, t, b, v) == isAncestorEq(t, BlockOf(f, v), b)

\* The first member of e available on exit of b (0 = nil).
anyAvailableOnExit(f, t, b, e) ==
    LET av == {k \in 1..Len(e) : availableOnExit(f, t, b, e[k])}
    IN IF av = {} THEN 0 ELSE e[CHOOSE x \in av : \A y \in av : x <= y]

\* availableArgs from argument i on: [ok, args].
RECURSIVE availableArgs(_, _, _, _)
availableArgs(hs, b, args, i) ==
    IF i > Len(args) THEN [ok |-> TRUE, args |-> args]
    ELSE LET a == args[i]
             u == IF Op(hs.f, a) = "Copy" THEN Args(hs.f, a)[1] ELSE a
             id == ClassOf(hs.valueEqClass, u)
             w == IF id < 0
                  THEN (IF availableOnExit(hs.f, hs.t, b, u) THEN u ELSE 0)
                  ELSE anyAvailableOnExit(hs.f, hs.t, b, hs.partition[id + 1])
         IN IF w = 0 THEN [ok |-> FALSE, args |-> args]
            ELSE availableArgs(hs, b, [args EXCEPT ![i] = w], i + 1)

\* A variant that adds c to the arguments the value has.
hoistedAwayKeepArgs(val, c) ==
    [val EXCEPT !.op = "Copy", !.args = Append(@, c), !.aux = 0, !.sym = ""]

\* u.reset(OpInvalid), or u.reset(OpCopy); u.AddArg(c).
hoistedAway(val, c) ==
    IF IsVoid(val.typ)
    THEN [val EXCEPT !.op = "Invalid", !.args = <<>>, !.aux = 0, !.sym = ""]
    ELSE [val EXCEPT !.op = "Copy", !.args = <<c>>, !.aux = 0, !.sym = ""]

\* The body of the loop of hoistClass over the destinations, for dst[i];
\* st = [hs, dst].
hoistInto(st, classID, i) ==
    LET hs == st.hs
        d == st.dst[i]
        b == d.blk
        v == d.vs[1]
        r == availableArgs(hs, b, Args(hs.f, v), 1)
        c == NumValues(hs.f) + 1
        new == [hs.f.vals[v] EXCEPT !.args = r.args]
    IN IF Len(d.vs) < 2 \/ ~r.ok THEN st
       ELSE [hs |-> [hs EXCEPT
                       !.f = [hs.f EXCEPT
                                !.vals = [x \in 1..c |->
                                            IF x = c THEN new
                                            ELSE IF x \in Elems(d.vs) THEN hoistedAway(hs.f.vals[x], c)
                                            ELSE hs.f.vals[x]],
                                !.order[b] = Append(@, c)],
                       !.valueEqClass = Append(@, classID),
                       !.hoists = @ + Len(d.vs),
                       !.log = Append(@, [class |-> classID, blk |-> b, new |-> c,
                                          vs |-> d.vs,
                                          members |-> hs.partition[classID + 1]])],
             dst |-> [st.dst EXCEPT ![i].v = c]]

RECURSIVE hoistDsts(_, _, _)
hoistDsts(st, classID, i) ==
    IF i > Len(st.dst) THEN st ELSE hoistDsts(hoistInto(st, classID, i), classID, i + 1)

\* "Leave in the class only the new instructions."
newValues(dst) ==
    LET kept == SelectSeq(dst, LAMBDA d : d.v # 0)
    IN [k \in 1..Len(kept) |-> kept[k].v]

\* hs = [f, t, partition, valueEqClass, antOut, done, hoists, log].
RECURSIVE hoistClass(_, _)
RECURSIVE hoistOperands(_, _, _, _)
hoistOperands(hs, e, i, j) ==
    IF i > Len(e) THEN hs
    ELSE IF j > Len(Args(hs.f, e[i])) THEN hoistOperands(hs, e, i + 1, 1)
    ELSE LET id == ClassOf(hs.valueEqClass, Args(hs.f, e[i])[j])
         IN hoistOperands(IF id < 0 THEN hs ELSE hoistClass(hs, id), e, i, j + 1)

hoistClass(hs, classID) ==
    IF Len(hs.partition[classID + 1]) < 2 \/ classID \in hs.done THEN hs
    ELSE LET h1 == hoistOperands([hs EXCEPT !.done = @ \cup {classID}],
                                 hs.partition[classID + 1], 1, 1)
             r == hoistDsts([hs |-> h1, dst |-> hoistPlan(h1, classID)], classID, 1)
         IN [r.hs EXCEPT !.partition[classID + 1] = newValues(r.dst)]

\* ------------------------------------------------------------------------
\* The functions cse and hoistValues are run on.  The CFG is b1 -> b2, b6;
\* b2 -> b3, b4; b3 -> b5; b4 -> b5, b6; b5 -> b6.  b1 holds v1 = Arg {x},
\* v2 = Arg {y} (int64), v3 = Arg {c} (bool, the control of b1 and b4) and
\* v4 = Arg {d} (bool, the control of b2).  A statement <<kind, block>> adds to its block:
\*   Add : Add64 x y
\*   Mul : t = Add64 x y and Mul64 t x
\*   Sel : Mul64uhilo x y and its Select0
HoistKinds == {"Add", "Mul", "Sel"}
HoistBlocks == 3..6

HoistValues(kind, n) ==
    CASE kind = "Add" -> <<Val("Add64", <<1, 2>>, 0, "int64")>>
      [] kind = "Mul" -> <<Val("Add64", <<1, 2>>, 0, "int64"),
                           Val("Mul64", <<n + 1, 1>>, 0, "int64")>>
      [] kind = "Sel" -> <<Val("Mul64uhilo", <<1, 2>>, 0, "tuple"),
                           Val("Select0", <<n + 1>>, 0, "int64")>>

HoistEmit(bs, st) ==
    LET n == Len(bs.vals)
        vs == HoistValues(st[1], n)
    IN [vals |-> bs.vals \o vs,
        order |-> [bs.order EXCEPT ![st[2]] = @ \o [i \in 1..Len(vs) |-> n + i]]]

RECURSIVE HoistEmitAll(_, _, _)
HoistEmitAll(bs, sts, i) ==
    IF i > Len(sts) THEN bs ELSE HoistEmitAll(HoistEmit(bs, sts[i]), sts, i + 1)

HoistCFG ==
    MkFunc(<<"If", "If", "Plain", "If", "Plain", "Ret">>,
           << <<2, 6>>, <<3, 4>>, <<5>>, <<5, 6>>, <<6>>, <<>> >>, <<3, 4, 0, 3, 0, 0>>,
           << <<>>, <<>>, <<>>, <<>>, <<>>, <<>> >>, <<>>)

HoistFunc(sts) ==
    LET base == [vals |-> <<ValAux("Arg", <<>>, 0, "int64", "x"),
                            ValAux("Arg", <<>>, 0, "int64", "y"),
                            ValAux("Arg", <<>>, 0, "bool", "c"),
                            ValAux("Arg", <<>>, 0, "bool", "d")>>,
                 order |-> << <<1, 2, 3, 4>>, <<>>, <<>>, <<>>, <<>>, <<>> >>]
        s == HoistEmitAll(base, sts, 1)
    IN [HoistCFG EXCEPT !.order = s.order, !.vals = s.vals]

HoistSeqs ==
    UNION {{[i \in 1..n |-> <<ks[i], bl[i]>>] :
               ks \in [1..n -> HoistKinds],
               bl \in {x \in [1..n -> HoistBlocks] : \A i \in 1..(n - 1) : x[i] <= x[i + 1]}} :
           n \in 1..MaxStmts}

InitHoist ==
    /\ \E sts \in HoistSeqs : fn0 = HoistFunc(sts)
    /\ fn = fn0
    /\ pc = "cse"
    /\ cells = <<>>
    /\ exec = {}
    /\ flowlist = <<>>
    /\ ssalist = <<>>
    /\ run = 0
    /\ ir1 = <<>>
    /\ input = 0
    /\ at = 0
    /\ env = <<>>
    /\ steps = 0
    /\ FoldIdle
    /\ CseInit
    /\ PassIdle

\* hoistValues up to the loop over the classes.
HoistCollect ==
    /\ pc = "cse_done"
    /\ LET part == hoistCandidates(fn, partition)
           eq == [v \in 1..NumValues(fn) |-> ClassOf(valueEqClass, v)]
       IN /\ partition' = part
          /\ valueEqClass' = eq
          /\ IF hoistCount(part, 1) = 0
             THEN antOut' = antOut /\ pc' = "hoist_done"
             ELSE antOut' = anticipatedExprs(fn, part, eq) /\ pc' = "hoist"
    /\ ri' = 1
    /\ hoistDone' = {}
    /\ hoists' = 0
    /\ UNCHANGED <<fn0, fn, svars, xvars, fvars, pNum, changed, sdom, rewrite, copiedSelects,
                   lq, nmove, noprehdr, blocks, log>>

\* One iteration of "for i := range partition": s.hoistClass(ID(i)).
HoistClassStep ==
    /\ pc = "hoist"
    /\ ri <= Len(partition)
    /\ LET r == hoistClass([f |-> fn, t |-> sdom, partition |-> partition,
                            valueEqClass |-> valueEqClass, antOut |-> antOut,
                            done |-> hoistDone, hoists |-> hoists, log |-> log], ri - 1)
       IN /\ fn' = r.f
          /\ partition' = r.partition
          /\ valueEqClass' = r.valueEqClass
          /\ hoistDone' = r.done
          /\ hoists' = r.hoists
          /\ log' = r.log
    /\ ri' = ri + 1
    /\ UNCHANGED <<fn0, pc, svars, xvars, fvars, pNum, changed, sdom, rewrite, copiedSelects,
                   antOut, lq, nmove, noprehdr, blocks>>

\* hoistValues returns.
HoistReturn ==
    /\ pc = "hoist"
    /\ ri > Len(partition)
    /\ pc' = "hoist_done"
    /\ UNCHANGED <<fn0, fn, svars, xvars, fvars, cvars, pvars>>

NextHoist == NextCse \/ HoistCollect \/ HoistClassStep \/ HoistReturn

SpecHoist == InitHoist /\ [][NextHoist]_vars

\* C11 (hoist soundness): whenever hoistClass creates a new value N for
\* class C in destination block D, every member of C that N replaces is in a
\* block strictly dominated by D, every argument of N is defined in a block
\* that dominates or is D, and C is in antOut[D].
C11_HoistSoundness ==
    \A k \in 1..Len(log) :
        LET r == log[k]
        IN /\ \A j \in 1..Len(r.vs) :
                 /\ BlockOf(fn, r.vs[j]) # r.blk
                 /\ Dominates(fn, r.blk, BlockOf(fn, r.vs[j]))
           /\ \A j \in 1..Len(Args(fn, r.new)) :
                 Dominates(fn, BlockOf(fn, Args(fn, r.new)[j]), r.blk)
           /\ r.class \in antOut[r.blk]

\* C11 as stated: every member of C present before the hoist, replaced or
\* not, is in a block dominated by D.
C11_AllMembersDominated ==
    \A k \in 1..Len(log) :
        \A j \in 1..Len(log[k].members) :
            Dominates(fn, log[k].blk, BlockOf(fn, log[k].members[j]))

\* A hoist whose new value takes a value hoisted before it as an argument.
C11_Witness ==
    /\ pc = "hoist_done"
    /\ \E k \in 1..Len(log) :
          /\ Len(log[k].vs) >= 2
          /\ \E j \in 1..Len(Args(fn, log[k].new)) :
                \E i \in 1..Len(log) : Args(fn, log[k].new)[j] = log[i].new

\* ------------------------------------------------------------------------
\* LICM.  The loop nest (f.loopnest, assembleChildren, findExits): a loop
\* is named by its header; a loop record holds what moveInvariants reads.
PredBlocks(f, b) == {f.preds[b][i].b : i \in 1..Len(f.preds[b])}

LoopHeaders(f) ==
    {h \in 1..NumBlocks(f) : \E p \in PredBlocks(f, h) : Dominates(f, h, p)}

\* The blocks that reach a block of S without passing through h.
RECURSIVE ReachingBack(_, _, _)
ReachingBack(f, h, S) ==
    LET next == S \cup {p \in UNION {PredBlocks(f, b) : b \in S \ {h}} : TRUE}
    IN IF next = S THEN S ELSE ReachingBack(f, h, next)

LoopBody(f, h) ==
    ReachingBack(f, h, {h} \cup {p \in PredBlocks(f, h) : Dominates(f, h, p)})

\* ln.b2l: the header of the innermost loop holding b (0: none).
b2l(f, b) ==
    LET hs == {h \in LoopHeaders(f) : b \in LoopBody(f, h)}
    IN IF hs = {} THEN 0
       ELSE CHOOSE h \in hs : \A g \in hs : LoopBody(f, h) \subseteq LoopBody(f, g)

\* lp.outer (0: nil).
LoopOuter(f, h) ==
    LET hs == {g \in LoopHeaders(f) : g # h /\ h \in LoopBody(f, g)}
    IN IF hs = {} THEN 0
       ELSE CHOOSE g \in hs : \A x \in hs : LoopBody(f, g) \subseteq LoopBody(f, x)

LoopOf(f, h) ==
    [header |-> h,
     own |-> {b \in 1..NumBlocks(f) : b2l(f, b) = h},
     exits |-> SortedSeq({s \in UNION {SuccBlocks(f, b) : b \in LoopBody(f, h)} :
                             s \notin LoopBody(f, h)}),
     containsCall |-> \E b \in LoopBody(f, h) : f.kinds[b] = "Call"]

\* The loops in the order licm processes them: for every outermost loop,
\* the loops nested in it first.
RECURSIVE LoopsInnerFirst(_, _)
LoopsInnerFirst(f, hs) ==
    IF Len(hs) = 0 THEN <<>>
    ELSE LoopsInnerFirst(f, SortedSeq({c \in LoopHeaders(f) : LoopOuter(f, c) = hs[1]}))
         \o <<LoopOf(f, hs[1])>> \o LoopsInnerFirst(f, Tail(hs))

LoopQueue(f) == LoopsInnerFirst(f, SortedSeq({h \in LoopHeaders(f) : LoopOuter(f, h) = 0}))

licmCanHoistValue(f, v) ==
    /\ Op(f, v) # "Phi"
    /\ ~IsControl(f, v)
    /\ ~IsMemory(Type(f, v))

\* OpConstBool <= op <= OpConstSlice, and OpConst8 <= op <= OpConst64F.
IsConstOp(op) == op \in {"ConstBool", "ConstString", "ConstNil", "Const8", "Const16", "Const32",
                         "Const64", "Const32F", "Const64F", "ConstInterface", "ConstSlice"}
IsNumConstOp(op) == op \in {"Const8", "Const16", "Const32", "Const64", "Const32F", "Const64F"}

\* The opcodes of specSafeV that the functions below are built of.
specSafe == {"Add64", "Mul64", "Less64", "Select0", "Select1", "Copy"} \cup {op \in {"ConstBool", "Const64"} : TRUE}

IsDivOrMod(op) == op \in {"Div8", "Div16", "Div32", "Div64", "Div8u", "Div16u", "Div32u", "Div64u",
                          "Mod8", "Mod16", "Mod32", "Mod64", "Mod8u", "Mod16u", "Mod32u", "Mod64u"}
IsFloatDiv(op) == op \in {"Div32F", "Div64F"}

specExecSafe(f, v) ==
    \/ Op(f, v) \in specSafe
    \/ /\ IsFloatDiv(Op(f, v)) \/ IsDivOrMod(Op(f, v))
       /\ IsNumConstOp(Op(f, Args(f, v)[2]))
       /\ AuxInt(f, Args(f, v)[2]) = 0

\* checkInvariant.  inv = [known, yes]: the values with an entry in the
\* invmap and those whose entry is true.  The result is [inv, res].
invSet(inv, v, isInv) ==
    [known |-> inv.known \cup {v}, yes |-> IF isInv THEN inv.yes \cup {v} ELSE inv.yes]

RECURSIVE checkInvariant(_, _, _, _, _)
RECURSIVE checkArgs(_, _, _, _, _, _)
checkArgs(f, t, lp, v, inv, i) ==
    IF i > Len(Args(f, v)) THEN [inv |-> inv, res |-> TRUE]
    ELSE LET r == checkInvariant(f, t, lp, Args(f, v)[i], inv)
         IN IF r.res THEN checkArgs(f, t, lp, v, r.inv, i + 1) ELSE r

\* "Check the value dominates all loop exit blocks, except the ones of the
\* BlockExit kind."
dominatesExits(f, t, lp, v) ==
    \A k \in 1..Len(lp.exits) :
        f.kinds[lp.exits[k]] = "Exit" \/ isAncestor(t, BlockOf(f, v), lp.exits[k])

checkInvariant(f, t, lp, v, inv) ==
    IF v \in inv.known THEN [inv |-> inv, res |-> v \in inv.yes]
    ELSE IF BlockOf(f, v) \notin lp.own
         THEN [inv |-> inv, res |-> isAncestor(t, BlockOf(f, v), lp.header)]
    ELSE IF ~licmCanHoistValue(f, v) THEN [inv |-> invSet(inv, v, FALSE), res |-> FALSE]
    ELSE IF IsConstOp(Op(f, v)) THEN [inv |-> invSet(inv, v, TRUE), res |-> TRUE]
    ELSE LET r == checkArgs(f, t, lp, v, inv, 1)
             ok == r.res /\ (specExecSafe(f, v) \/ dominatesExits(f, t, lp, v))
         IN [inv |-> invSet(r.inv, v, ok), res |-> ok]

\* "Find the pre-header": the only edge into the header from a block the
\* header does not dominate (0: nil).
RECURSIVE findPreHeaderFirst(_, _, _, _)
findPreHeaderFirst(f, t, h, i) ==
    IF i > Len(f.preds[h]) THEN 0
    ELSE IF isAncestorEq(t, h, f.preds[h][i].b) THEN findPreHeaderFirst(f, t, h, i + 1)
    ELSE f.preds[h][i].b

RECURSIVE findPreHeaderFrom(_, _, _, _, _)
findPreHeaderFrom(f, t, h, i, pre) ==
    IF i > Len(f.preds[h]) THEN pre
    ELSE IF isAncestorEq(t, h, f.preds[h][i].b) THEN findPreHeaderFrom(f, t, h, i + 1, pre)
    ELSE IF pre # 0 THEN 0
    ELSE findPreHeaderFrom(f, t, h, i + 1, f.preds[h][i].b)

\* A variant that takes the first such edge whatever follows it.
findPreHeaderAny(f, t, h) == findPreHeaderFirst(f, t, h, 1)

findPreHeader(f, t, h) == findPreHeaderFrom(f, t, h, 1, 0)

\* A variant that determines the invariance of the first value of every
\* block only (and of what that value takes as arguments).
RECURSIVE invariantsOfFirst(_, _, _, _, _, _, _)
invariantsOfFirst(f, t, bl, lp, i, j, inv) ==
    IF i > Len(bl) THEN inv
    ELSE IF bl[i] \notin lp.own \/ j > Len(f.order[bl[i]]) \/ j > 1
         THEN invariantsOfFirst(f, t, bl, lp, i + 1, 1, inv)
    ELSE invariantsOfFirst(f, t, bl, lp, i, j + 1,
                           checkInvariant(f, t, lp, f.order[bl[i]][j], inv).inv)

\* "Determine invariance of each definition in the loop."
RECURSIVE invariantsOf(_, _, _, _, _, _, _)
invariantsOf(f, t, bl, lp, i, j, inv) ==
    IF i > Len(bl) THEN inv
    ELSE IF bl[i] \notin lp.own \/ j > Len(f.order[bl[i]])
         THEN invariantsOf(f, t, bl, lp, i + 1, 1, inv)
    ELSE invariantsOf(f, t, bl, lp, i, j + 1,
                      checkInvariant(f, t, lp, f.order[bl[i]][j], inv).inv)

\* "Move the invariants to the pre-header": the values moved, in the order
\* they are appended to pre.Values.
RECURSIVE movedValues(_, _, _, _, _)
movedValues(f, bl, lp, inv, i) ==
    IF i > Len(bl) THEN <<>>
    ELSE (IF bl[i] \in lp.own
          THEN SelectSeq(f.order[bl[i]], LAMBDA v : v \in inv.yes) ELSE <<>>)
         \o movedValues(f, bl, lp, inv, i + 1)

\* The values the move loop meets with no entry in the invmap: it calls
\* Fatalf("unknown invariance status") on the first.
unknownStatus(f, lp, inv) ==
    {v \in 1..NumValues(f) : \E b \in lp.own : v \in Range(f.order[b]) /\ v \notin inv.known}

moveTo(f, lp, pre, inv, moved) ==
    [f EXCEPT !.order = [b \in 1..NumBlocks(f) |->
        IF b = pre THEN f.order[b] \o moved
        ELSE IF b \in lp.own THEN SelectSeq(f.order[b], LAMBDA v : v \notin inv.yes)
        ELSE f.order[b]]]

\* A variant that skips no loop.
skipNoLoop(lp) == FALSE

\* "If the loop contains calls ... return".
skipLoop(lp) == lp.containsCall

\* moveInvariants on one loop, after its children: [f, nmove, nohdr, pre,
\* moved, fatal].
moveInvariants(f, t, bl, lp) ==
    IF skipLoop(lp)
    THEN [f |-> f, nmove |-> 0, nohdr |-> 0, pre |-> 0, moved |-> <<>>, fatal |-> FALSE]
    ELSE LET pre == findPreHeader(f, t, lp.header)
         IN IF pre = 0
            THEN [f |-> f, nmove |-> 0, nohdr |-> 1, pre |-> 0, moved |-> <<>>,
                  fatal |-> FALSE]
            ELSE LET inv == invariantsOf(f, t, bl, lp, 1, 1, [known |-> {}, yes |-> {}])
                     moved == movedValues(f, bl, lp, inv, 1)
                 IN [f |-> moveTo(f, lp, pre, inv, moved), nmove |-> Len(moved),
                     nohdr |-> 0, pre |-> pre, moved |-> moved,
                     fatal |-> unknownStatus(f, lp, inv) # {}]

\* ------------------------------------------------------------------------
\* The functions licm is run on.  b1 is the entry and holds v1 = Arg {x},
\* v2 = Arg {y} (int64), v3 = Arg {p} (a pointer), v4 = InitMem and
\* v5 = Arg {c} (bool).  b2 is a loop header and holds v6 = Phi x .. x and
\* its control v7 = Less64 x y.  The shapes:
\*   exits  : b1 -> b2; b2 -> b3, b4; b3 -> b2, b5; b4 and b5 return
\*   panics : the same, b4 of kind Exit
\*   twopre : b1 -> b2, b5; b5 -> b2; b2 -> b3, b4; b3 -> b2
\*   double : b1 -> b2, b2; b2 -> b3, b4; b3 -> b2
\*   call   : as nested, b6 (of the outer loop only) of kind Call
\*   nested : b1 -> b2; b2 -> b3, b7; b3 -> b4; b4 -> b5, b6; b5 -> b4;
\*            b6 -> b2; the inner header b4 holds its control v8 = Less64 y x
\* A statement <<kind, where>> adds to the header b2 (where = 1) or to the
\* innermost body block (where = 2: b3, or b5 of nested):
\*   Add   : Add64 x y
\*   Mul   : Mul64 t x, t the last Add64 added before it, or x
\*   Div0  : c = Const64 [0] and Div64 x c
\*   DivK  : c = Const64 [MaxConst] and Div64 x c
\*   DivV  : Div64 x y
\*   Load  : Load p mem
LicmShapes == {"exits", "panics", "twopre", "double", "call", "nested"}
LicmKinds == {"Add", "Mul", "Div0", "DivK", "DivV", "Load"}
MaxLicmStmts == 2

LicmCFG(shape) ==
    CASE shape = "exits" ->
           MkFunc(<<"Plain", "If", "If", "Ret", "Ret">>,
                  << <<2>>, <<3, 4>>, <<2, 5>>, <<>>, <<>> >>, <<0, 7, 5, 0, 0>>,
                  << <<>>, <<>>, <<>>, <<>>, <<>> >>, <<>>)
      [] shape = "panics" ->
           MkFunc(<<"Plain", "If", "If", "Exit", "Ret">>,
                  << <<2>>, <<3, 4>>, <<2, 5>>, <<>>, <<>> >>, <<0, 7, 5, 0, 0>>,
                  << <<>>, <<>>, <<>>, <<>>, <<>> >>, <<>>)
      [] shape = "twopre" ->
           MkFunc(<<"If", "If", "Plain", "Ret", "Plain">>,
                  << <<2, 5>>, <<3, 4>>, <<2>>, <<>>, <<2>> >>, <<5, 7, 0, 0, 0>>,
                  << <<>>, <<>>, <<>>, <<>>, <<>> >>, <<>>)
      [] shape = "double" ->
           MkFunc(<<"If", "If", "Plain", "Ret">>,
                  << <<2, 2>>, <<3, 4>>, <<2>>, <<>> >>, <<5, 7, 0, 0>>,
                  << <<>>, <<>>, <<>>, <<>> >>, <<>>)
      [] shape = "call" ->
           MkFunc(<<"Plain", "If", "Plain", "If", "Plain", "Call", "Ret">>,
                  << <<2>>, <<3, 7>>, <<4>>, <<5, 6>>, <<4>>, <<2>>, <<>> >>,
                  <<0, 7, 0, 8, 0, 0, 0>>,
                  << <<>>, <<>>, <<>>, <<>>, <<>>, <<>>, <<>> >>, <<>>)
      [] shape = "nested" ->
           MkFunc(<<"Plain", "If", "Plain", "If", "Plain", "Plain", "Ret">>,
                  << <<2>>, <<3, 7>>, <<4>>, <<5, 6>>, <<4>>, <<2>>, <<>> >>,
                  <<0, 7, 0, 8, 0, 0, 0>>,
                  << <<>>, <<>>, <<>>, <<>>, <<>>, <<>>, <<>> >>, <<>>)

LicmBlock(shape, where) ==
    IF where = 1 THEN 2 ELSE IF shape \in {"nested", "call"} THEN 5 ELSE 3

LicmValues(kind, n, t) ==
    CASE kind = "Add" -> <<Val("Add64", <<1, 2>>, 0, "int64")>>
      [] kind = "Mul" -> <<Val("Mul64", <<t, 1>>, 0, "int64")>>
      [] kind = "Div0" -> <<Val("Const64", <<>>, 0, "int64"),
                            Val("Div64", <<1, n + 1>>, 0, "int64")>>
      [] kind = "DivK" -> <<Val("Const64", <<>>, MaxConst, "int64"),
                            Val("Div64", <<1, n + 1>>, 0, "int64")>>
      [] kind = "DivV" -> <<Val("Div64", <<1, 2>>, 0, "int64")>>
      [] kind = "Load" -> <<Val("Load", <<3, 4>>, 0, "int64")>>

\* bs = [vals, order, add]: add[w] is the last Add64 added to the header
\* (w = 1) or to the body (w = 2); 1: none, x stands in.
LicmEmit(shape, bs, st) ==
    LET n == Len(bs.vals)
        b == LicmBlock(shape, st[2])
        vs == LicmValues(st[1], n, IF st[2] = 2 /\ bs.add[2] # 1 THEN bs.add[2] ELSE bs.add[1])
    IN [vals |-> bs.vals \o vs,
        order |-> [bs.order EXCEPT ![b] = @ \o [i \in 1..Len(vs) |-> n + i]],
        add |-> IF st[1] = "Add" THEN [bs.add EXCEPT ![st[2]] = n + 1] ELSE bs.add]

RECURSIVE LicmEmitAll(_, _, _, _)
LicmEmitAll(shape, bs, sts, i) ==
    IF i > Len(sts) THEN bs ELSE LicmEmitAll(shape, LicmEmit(shape, bs, sts[i]), sts, i + 1)

LicmFunc(shape, sts) ==
    LET cfg == LicmCFG(shape)
        n == Len(cfg.kinds)
        hdr == <<Val("Phi", [i \in 1..Len(cfg.preds[2]) |-> 1], 0, "int64"),
                 Val("Less64", <<1, 2>>, 0, "bool")>>
        base == [vals |-> <<ValAux("Arg", <<>>, 0, "int64", "x"),
                            ValAux("Arg", <<>>, 0, "int64", "y"),
                            ValAux("Arg", <<>>, 0, "ptr", "p"),
                            Val("InitMem", <<>>, 0, "mem"),
                            ValAux("Arg", <<>>, 0, "bool", "c")>>
                           \o hdr
                           \o (IF shape \in {"nested", "call"}
                               THEN <<Val("Less64", <<2, 1>>, 0, "bool")>> ELSE <<>>),
                 order |-> [b \in 1..n |->
                              IF b = 1 THEN <<1, 2, 3, 4, 5>>
                              ELSE IF b = 2 THEN <<6, 7>>
                              ELSE IF b = 4 /\ shape \in {"nested", "call"} THEN <<8>>
                              ELSE <<>>],
                 add |-> <<1, 1>>]
        s == LicmEmitAll(shape, base, sts, 1)
    IN [cfg EXCEPT !.order = s.order, !.vals = s.vals]

\* The statements of the header come first.
LicmSeqs ==
    UNION {{[i \in 1..n |-> <<ks[i], w[i]>>] :
               ks \in [1..n -> LicmKinds],
               w \in {x \in [1..n -> {1, 2}] : \A i \in 1..(n - 1) : x[i] <= x[i + 1]}} :
           n \in 1..MaxLicmStmts}

\* f.Blocks: in the order of the block IDs, or in the opposite order.
BlockLists(f) ==
    {[i \in 1..NumBlocks(f) |-> i], [i \in 1..NumBlocks(f) |-> NumBlocks(f) + 1 - i]}

InitLicm ==
    /\ \E shape \in LicmShapes : \E sts \in LicmSeqs :
          /\ fn0 = LicmFunc(shape, sts)
          /\ blocks \in BlockLists(fn0)
    /\ fn = fn0
    /\ pc = "licm"
    /\ cells = <<>>
    /\ exec = {}
    /\ flowlist = <<>>
    /\ ssalist = <<>>
    /\ run = 0
    /\ ir1 = <<>>
    /\ input = 0
    /\ at = 0
    /\ env = <<>>
    /\ steps = 0
    /\ FoldIdle
    /\ CseInit
    /\ antOut = <<>>
    /\ hoistDone = {}
    /\ hoists = 0
    /\ lq = <<>>
    /\ nmove = 0
    /\ noprehdr = 0
    /\ log = <<>>

\* licm up to its loop: f.loopnest(), assembleChildren, findExits.
LicmStart ==
    /\ pc = "licm"
    /\ lq' = LoopQueue(fn)
    /\ sdom' = NewSparseTree(fn)
    /\ pc' = "licm_loops"
    /\ UNCHANGED <<fn0, fn, svars, xvars, fvars, partition, valueEqClass, pNum, ri, changed,
                   rewrite, copiedSelects, antOut, hoistDone, hoists, nmove, noprehdr,
                   blocks, log>>

\* moveInvariants on the next loop (the loops nested in it are done).
LicmLoop ==
    /\ pc = "licm_loops"
    /\ lq # <<>>
    /\ LET lp == Head(lq)
           r == moveInvariants(fn, sdom, blocks, lp)
       IN /\ fn' = r.f
          /\ nmove' = nmove + r.nmove
          /\ noprehdr' = noprehdr + r.nohdr
          /\ log' = Append(log, [lp |-> lp, pre |-> r.pre, moved |-> r.moved,
                                 nohdr |-> r.nohdr, fatal |-> r.fatal,
                                 before |-> fn, after |-> r.f])
    /\ lq' = Tail(lq)
    /\ UNCHANGED <<fn0, pc, svars, xvars, fvars, cvars, antOut, hoistDone, hoists, blocks>>

\* licm returns.
LicmReturn ==
    /\ pc = "licm_loops"
    /\ lq = <<>>
    /\ pc' = "licm_done"
    /\ UNCHANGED <<fn0, fn, svars, xvars, fvars, cvars, pvars>>

NextLicm == LicmStart \/ LicmLoop \/ LicmReturn

SpecLicm == InitLicm /\ [][NextLicm]_vars

\* The values moved by the k-th call of moveInvariants, as a set.
MovedBy(k) == {log[k].moved[i] : i \in 1..Len(log[k].moved)}

\* A value that "can be safely executed by the optimized program, even
\* though it may not be executed in the original program at all": an
\* operation that cannot fault and reads no memory, or a division or modulo
\* by a constant that is not zero.
SafeToSpeculate(f, v) ==
    \/ Op(f, v) \in specSafe
    \/ /\ IsFloatDiv(Op(f, v)) \/ IsDivOrMod(Op(f, v))
       /\ IsNumConstOp(Op(f, Args(f, v)[2]))
       /\ AuxInt(f, Args(f, v)[2]) # 0

\* C12 (LICM safety): when moveInvariants moves a value V of loop L into the
\* pre-header P, P strictly dominates the header of L, every argument of V
\* is, after the move, defined in a block that dominates or is P, and V is
\* safe to execute speculatively or its original block dominates every exit
\* of L whose kind is not Exit.
C12_LicmSafety ==
    \A k \in 1..Len(log) :
        LET r == log[k]
        IN \A v \in MovedBy(k) :
              /\ r.pre # r.lp.header
              /\ Dominates(r.before, r.pre, r.lp.header)
              /\ \A j \in 1..Len(Args(r.after, v)) :
                    Dominates(r.after, BlockOf(r.after, Args(r.after, v)[j]), r.pre)
              /\ \/ SafeToSpeculate(r.before, v)
                 \/ \A e \in 1..Len(r.lp.exits) :
                       r.before.kinds[r.lp.exits[e]] # "Exit"
                           => Dominates(r.before, BlockOf(r.before, v), r.lp.exits[e])

\* C13 (LICM does not move memory-reading values): no value moved by
\* moveInvariants has a memory-typed argument.
C13_NoMemoryReaderMoved ==
    \A k \in 1..Len(log) :
        \A v \in MovedBy(k) :
            \A j \in 1..Len(Args(fn, v)) : ~IsMemory(Type(fn, Args(fn, v)[j]))

\* The edges into the header of the k-th loop from blocks the header does
\* not dominate.
OutsideEdges(k) ==
    LET f == log[k].before
        h == log[k].lp.header
    IN {i \in 1..Len(f.preds[h]) : ~Dominates(f, h, f.preds[h][i].b)}

\* C14 (LICM aborts cleanly without pre-header): for a loop without calls
\* whose header has no, or more than one, predecessor edge from a block the
\* header does not dominate, moveInvariants moves nothing, leaves every value
\* list (and so every value's block) as it was and counts one NOPREHDR; with
\* exactly one such edge, its block is the pre-header.
C14_NoPreHeader ==
    \A k \in 1..Len(log) :
        LET r == log[k]
        IN ~r.lp.containsCall =>
              IF Cardinality(OutsideEdges(k)) = 1
              THEN /\ r.nohdr = 0
                   /\ \A i \in OutsideEdges(k) : r.pre = r.before.preds[r.lp.header][i].b
              ELSE /\ r.nohdr = 1
                   /\ r.moved = <<>>
                   /\ r.after = r.before

\* licm has passed over a loop without a pre-header that holds a value it
\* would otherwise move, and counted it.
C14_Witness ==
    /\ pc = "licm_done"
    /\ noprehdr = 1
    /\ nmove = 0
    /\ \E k \in 1..Len(log) :
          /\ Cardinality(OutsideEdges(k)) = 2
          /\ \E v \in 1..NumValues(fn) :
                Op(fn, v) = "Add64" /\ BlockOf(fn, v) \in log[k].lp.own

\* C21 (LICM skips loops containing a call): for a loop L with containsCall
\* set, moveInvariants moves nothing out of the blocks whose innermost loop
\* is L, leaves the value lists as they were and counts no missing
\* pre-header; the loops nested in L have been processed before.
C21_CallLoopSkipped ==
    \A k \in 1..Len(log) :
        log[k].lp.containsCall =>
            /\ log[k].moved = <<>>
            /\ log[k].after = log[k].before
            /\ log[k].nohdr = 0
            /\ \A c \in LoopHeaders(fn0) :
                  LoopOuter(fn0, c) = log[k].lp.header
                      => \E i \in 1..(k - 1) : log[i].lp.header = c

\* licm has moved a value out of a loop nested in a loop with a call, and
\* left an Add64 of invariant arguments in the header of the outer loop.
C21_Witness ==
    /\ pc = "licm_done"
    /\ \E k \in 1..Len(log) :
          /\ log[k].lp.containsCall
          /\ \E i \in 1..(k - 1) : log[i].moved # <<>>
          /\ \E v \in 1..NumValues(fn) :
                Op(fn, v) = "Add64" /\ BlockOf(fn, v) = log[k].lp.header

\* C25 (LICM fatal error is unreachable): in the move loop of
\* moveInvariants every value of a block whose innermost loop is the loop
\* being processed has an entry in the invmap: Fatalf is not called.
C25_NoFatal == \A k \in 1..Len(log) : ~log[k].fatal

\* licm has moved values of an inner loop into a pre-header that belongs to
\* the outer loop, and then moved values of the outer loop.
C25_Witness ==
    \E k \in 1..Len(log) : \E i \in 1..(k - 1) :
        /\ log[i].moved # <<>>
        /\ log[i].pre \in log[k].lp.own
        /\ \E j \in 1..Len(log[k].moved) : log[k].moved[j] \in Range(log[i].moved)

\* C19 (LICM preserves SSA order in pre-header): when a call of
\* moveInvariants moves a value U and an argument V of U into the
\* pre-header, V comes before U in the pre-header's value list.
C19_OrderInPreHeader ==
    \A k \in 1..Len(log) :
        LET r == log[k]
            vs == r.after.order[r.pre]
        IN \A u \in MovedBy(k) : \A j \in 1..Len(Args(r.after, u)) :
              Args(r.after, u)[j] \in MovedBy(k)
                  => IndexOf(vs, Args(r.after, u)[j]) < IndexOf(vs, u)

\* C20 (LICM specExecSafe for division): in every loop moveInvariants
\* analyses, specExecSafe holds of an integer division or modulo only if its
\* divisor is an integer constant whose AuxInt is not zero.
C20_DivisionSafety ==
    \A k \in 1..Len(log) :
        LET f == log[k].before
        IN \A v \in 1..NumValues(f) :
              (log[k].pre # 0 /\ BlockOf(f, v) \in log[k].lp.own
                 /\ IsDivOrMod(Op(f, v)) /\ specExecSafe(f, v))
                 => /\ Op(f, Args(f, v)[2]) \in {"Const8", "Const16", "Const32", "Const64"}
                    /\ AuxInt(f, Args(f, v)[2]) # 0

\* ------------------------------------------------------------------------
\* trim(f): deletion of the blocks that carry no code.  blocks is f.Blocks;
\* a deleted block keeps its ID and has no edges and no values.
emptyBlock(f, b) == \A i \in 1..Len(f.order[b]) : Op(f, f.order[b][i]) = "Phi"

\* A variant of the criteria that does not look at the block's values.
trimmableAnyCode(f, b) ==
    /\ b # 1
    /\ Len(f.preds[b]) > 0
    /\ f.kinds[b] = "Plain"
    /\ f.succs[b][1].b # b

\* The criteria of removal: the block has predecessors, is Plain, does not
\* loop back to itself, and is the single predecessor of its successor (its
\* instructions are merged into the successor) or emits no code.
trimmableBlock(f, b) ==
    /\ b # 1
    /\ Len(f.preds[b]) > 0
    /\ f.kinds[b] = "Plain"
    /\ f.succs[b][1].b # b
    /\ Len(f.preds[f.succs[b][1].b]) = 1 \/ emptyBlock(f, b)

\* The slot of S that the m-th predecessor of b takes: the slot b held,
\* then the slots appended to S's predecessor list.
trimSlot(f, b, m) ==
    IF m = 1 THEN f.succs[b][1].i ELSE Len(f.preds[f.succs[b][1].b]) + m - 1

\* A variant that hands every predecessor of b the slot b held.
trimSuccsOneSlot(f, b) ==
    [p \in 1..NumBlocks(f) |->
        IF p = b THEN <<>>
        ELSE [i \in 1..Len(f.succs[p]) |->
                IF f.succs[p][i].b = b THEN f.succs[b][1] ELSE f.succs[p][i]]]

\* A variant that redirects the first predecessor of b only.
trimSuccsFirstOnly(f, b) ==
    [p \in 1..NumBlocks(f) |->
        IF p = b THEN <<>>
        ELSE [i \in 1..Len(f.succs[p]) |->
                IF f.succs[p][i].b = b /\ f.succs[p][i].i = 1
                THEN f.succs[b][1] ELSE f.succs[p][i]]]

\* "For each predecessor P of B, rewrite P's successor referring to B to
\* refer to S."
trimSuccs(f, b) ==
    [p \in 1..NumBlocks(f) |->
        IF p = b THEN <<>>
        ELSE [i \in 1..Len(f.succs[p]) |->
                IF f.succs[p][i].b = b
                THEN Edge(f.succs[b][1].b, trimSlot(f, b, f.succs[p][i].i))
                ELSE f.succs[p][i]]]

\* "... and extend S's predecessor list accordingly."
trimPreds(f, b) ==
    LET s == f.succs[b][1].b
        j == f.succs[b][1].i
    IN [x \in 1..NumBlocks(f) |->
          IF x = b THEN <<>>
          ELSE IF x = s THEN [f.preds[s] EXCEPT ![j] = f.preds[b][1]] \o Tail(f.preds[b])
          ELSE f.preds[x]]

\* A variant of the merge that appends nothing.
mergePhiSlotOnly(f, v, j, b) ==
    LET u == Args(f, v)[j]
    IN IF u \in Range(f.order[b]) /\ Op(f, u) = "Phi"
       THEN [Args(f, v) EXCEPT ![j] = Args(f, u)[1]]
       ELSE Args(f, v)

\* The arguments of the phi v of S after the merge of b, that held slot j:
\* v = phi(v0, .., u0, .., vk, u1, .., un) if the argument was the phi u of
\* b, and phi(v0, .., vk, vi, vi, ..) if not.
mergePhi(f, v, j, b) ==
    LET u == Args(f, v)[j]
    IN IF u \in Range(f.order[b]) /\ Op(f, u) = "Phi"
       THEN [Args(f, v) EXCEPT ![j] = Args(f, u)[1]] \o Tail(Args(f, u))
       ELSE Args(f, v) \o [m \in 1..(Len(f.preds[b]) - 1) |-> Args(f, v)[j]]

\* The values of b that stay, in S: all but the phis that a phi of S takes
\* as the argument of b's slot.
unmergedValues(f, b) ==
    LET s == f.succs[b][1].b
        j == f.succs[b][1].i
    IN SelectSeq(f.order[b],
                 LAMBDA u : Op(f, u) = "Phi" =>
                               \A i \in 1..Len(f.order[s]) :
                                  Op(f, f.order[s][i]) = "Phi"
                                      => Args(f, f.order[s][i])[j] # u)

\* Their arguments, "padded by replicating the first argument" up to the
\* new number of predecessors of S.
padPhi(f, u, n) == Args(f, u) \o [m \in 1..(n - Len(Args(f, u))) |-> Args(f, u)[1]]

\* The function with b spliced out.
trimBlock(f, b) ==
    LET s == f.succs[b][1].b
        j == f.succs[b][1].i
        kept == unmergedValues(f, b)
        n == Len(f.preds[s]) + Len(f.preds[b]) - 1
    IN [f EXCEPT
          !.succs = trimSuccs(f, b),
          !.preds = trimPreds(f, b),
          !.order = [x \in 1..NumBlocks(f) |->
                        IF x = b THEN <<>>
                        ELSE IF x = s THEN kept \o f.order[s] ELSE f.order[x]],
          !.vals = [v \in 1..NumValues(f) |->
                       IF v \in Range(f.order[s]) /\ Op(f, v) = "Phi"
                       THEN [f.vals[v] EXCEPT !.args = mergePhi(f, v, j, b)]
                       ELSE IF v \in Range(kept) /\ Op(f, v) = "Phi"
                       THEN [f.vals[v] EXCEPT !.args = padPhi(f, v, n)]
                       ELSE f.vals[v]]]

\* ------------------------------------------------------------------------
\* The functions trim is run on.
\* "search" is the function Search of the README after the previous trim:
\*   b1 -> b2; b2 -> b3, b9; b3 -> b8, b4; b4 -> b7, b5; b5 -> b6; b6 -> b2;
\*   b7 -> b6; b8 and b9 return (the README's b1, b2, b9, b13, b21, b4, b19,
\*   b10, b5); the values carry the README's names.
\* "entry" is b1 -> b2; b2 -> b3, b4; b3 -> b3; b4 -> b5, with an empty
\* Plain entry b1, v1 = Arg {c} in b2, an empty Plain b3, and a Plain b4
\* that is empty or holds v2 = Not c.
\* "join" is b1 -> b2, b3; b2 -> b4; b3 -> b4; b4 -> b5; b5 -> b6, b7;
\* b6 -> b5; b1 holds v1 = Arg {x}, v2 = Arg {y}, v3 = Arg {c}; its
\* parameters: code[b] (b in 2, 3, 4, 6: the block holds an Add64 x y),
\* phi4 (b4 holds u = Phi x y) and phi5 ("none", "plain": b5 holds
\* v = Phi y x, "merge": b5 holds v = Phi u x).
SearchFunc ==
    MkFunc(<<"Plain", "If", "If", "If", "Plain", "Plain", "Plain", "Ret", "Ret">>,
           << <<2>>, <<3, 9>>, <<8, 4>>, <<7, 5>>, <<6>>, <<2>>, <<6>>, <<>>, <<>> >>,
           <<0, 3, 5, 6, 0, 0, 0, 0, 0>>,
           << <<1>>, <<2, 3>>, <<4, 5>>, <<6>>, <<7>>, <<8>>, <<9>>, <<>>, <<>> >>,
           <<ValAux("LoadReg", <<>>, 0, "ptr", "v34"),
             ValAux("Phi", <<1, 8>>, 0, "ptr", "v8"),
             ValAux("TESTQ", <<2, 2>>, 0, "flags", "v33"),
             ValAux("MOVQload", <<2>>, 0, "int64", "v16"),
             ValAux("CMPQ", <<4, 4>>, 0, "flags", "v21"),
             ValAux("CMPQ", <<4, 4>>, 0, "flags", "v64"),
             ValAux("MOVQload", <<2>>, 16, "ptr", "v42"),
             ValAux("Phi", <<7, 9>>, 0, "ptr", "v68"),
             ValAux("MOVQload", <<2>>, 8, "ptr", "v36")>>)

EntryFunc(code) ==
    MkFunc(<<"Plain", "If", "Plain", "Plain", "Ret">>,
           << <<2>>, <<3, 4>>, <<3>>, <<5>>, <<>> >>, <<0, 1, 0, 0, 0>>,
           << <<>>, <<1>>, <<>>, IF code THEN <<2>> ELSE <<>>, <<>> >>,
           <<ValAux("Arg", <<>>, 0, "bool", "c")>>
               \o (IF code THEN <<Val("Not", <<1>>, 0, "bool")>> ELSE <<>>))

JoinFunc(code, phi4, phi5) ==
    LET base == <<ValAux("Arg", <<>>, 0, "int64", "x"),
                  ValAux("Arg", <<>>, 0, "int64", "y"),
                  ValAux("Arg", <<>>, 0, "bool", "c")>>
        u == IF phi4 THEN <<Val("Phi", <<1, 2>>, 0, "int64")>> ELSE <<>>
        v == CASE phi5 = "none" -> <<>>
               [] phi5 = "plain" -> <<Val("Phi", <<2, 1>>, 0, "int64")>>
               [] phi5 = "merge" -> <<Val("Phi", <<4, 1>>, 0, "int64")>>
        nu == 3 + Len(u)
        nv == nu + Len(v)
        cb == SelectSeq(<<2, 3, 4, 6>>, LAMBDA b : code[b])
        adds == [b \in 1..7 |-> IF b \in Range(cb) THEN <<nv + IndexOf(cb, b)>> ELSE <<>>]
    IN MkFunc(<<"If", "Plain", "Plain", "Plain", "If", "Plain", "Ret">>,
              << <<2, 3>>, <<4>>, <<4>>, <<5>>, <<6, 7>>, <<5>>, <<>> >>,
              <<3, 0, 0, 0, 3, 0, 0>>,
              [b \in 1..7 |->
                  IF b = 1 THEN <<1, 2, 3>>
                  ELSE IF b = 4 THEN [i \in 1..Len(u) |-> 3 + i] \o adds[4]
                  ELSE IF b = 5 THEN [i \in 1..Len(v) |-> nu + i]
                  ELSE adds[b]],
              base \o u \o v \o [i \in 1..Len(cb) |-> Val("Add64", <<1, 2>>, 0, "int64")])

TrimFuncs ==
    {SearchFunc, EntryFunc(FALSE), EntryFunc(TRUE)}
        \cup {JoinFunc(p.code, p.phi4, p.phi5) :
                p \in {q \in [code : [{2, 3, 4, 6} -> BOOLEAN], phi4 : BOOLEAN,
                              phi5 : {"none", "plain", "merge"}] :
                          q.phi5 = "merge" => q.phi4}}

InitTrim ==
    /\ fn0 \in TrimFuncs
    /\ fn = fn0
    /\ blocks = [i \in 1..NumBlocks(fn0) |-> i]
    /\ pc = "trim"
    /\ cells = <<>>
    /\ exec = {}
    /\ flowlist = <<>>
    /\ ssalist = <<>>
    /\ run = 0
    /\ ir1 = <<>>
    /\ input = 0
    /\ at = 0
    /\ env = <<>>
    /\ steps = 0
    /\ FoldIdle
    /\ CseInit
    /\ antOut = <<>>
    /\ hoistDone = {}
    /\ hoists = 0
    /\ lq = <<>>
    /\ nmove = 0
    /\ noprehdr = 0
    /\ log = <<>>

\* trim deletes the first block of f.Blocks that meets the criteria.
TrimStep ==
    /\ pc = "trim"
    /\ \E k \in 1..Len(blocks) :
          /\ trimmableBlock(fn, blocks[k])
          /\ \A i \in 1..(k - 1) : ~trimmableBlock(fn, blocks[i])
          /\ fn' = trimBlock(fn, blocks[k])
          /\ blocks' = SelectSeq(blocks, LAMBDA x : x # blocks[k])
          /\ log' = Append(log, [b |-> blocks[k], before |-> fn, after |-> trimBlock(fn, blocks[k])])
    /\ UNCHANGED <<fn0, pc, svars, xvars, fvars, cvars, antOut, hoistDone, hoists, lq, nmove,
                   noprehdr>>

\* No block meets the criteria: trim returns.
TrimReturn ==
    /\ pc = "trim"
    /\ \A k \in 1..Len(blocks) : ~trimmableBlock(fn, blocks[k])
    /\ pc' = "trim_done"
    /\ UNCHANGED <<fn0, fn, svars, xvars, fvars, cvars, pvars>>

NextTrim == TrimStep \/ TrimReturn

SpecTrim == InitTrim /\ [][NextTrim]_vars

SelfLoop(f, b) == Len(f.succs[b]) = 1 /\ f.succs[b][1].b = b

C16_PhiMerge ==
    /\ \A k \in 1..Len(log) :
          LET f == log[k].before
              g == log[k].after
              b == log[k].b
              s == f.succs[b][1].b
              j == f.succs[b][1].i
              n == Len(f.preds[b])
              ns == Len(f.preds[s])
          IN /\ \A i \in 1..Len(g.order[s]) :
                   Op(g, g.order[s][i]) = "Phi"
                       => Len(Args(g, g.order[s][i])) = Len(g.preds[s])
             /\ Len(g.preds[s]) = ns + n - 1
             /\ g.preds[s][j].b = f.preds[b][1].b
             /\ \A m \in 2..n : g.preds[s][ns + m - 1].b = f.preds[b][m].b
             /\ \A i \in 1..Len(f.order[s]) :
                   LET v == f.order[s][i]
                       old == Args(f, v)
                       new == Args(g, v)
                   IN Op(f, v) = "Phi" =>
                         /\ \A x \in 1..ns : x # j => new[x] = old[x]
                         /\ IF old[j] \in Range(f.order[b]) /\ Op(f, old[j]) = "Phi"
                            THEN /\ new[j] = Args(f, old[j])[1]
                                 /\ \A m \in 2..n : new[ns + m - 1] = Args(f, old[j])[m]
                            ELSE /\ new[j] = old[j]
                                 /\ \A m \in 2..n : new[ns + m - 1] = old[j]
    /\ (fn0 = SearchFunc /\ pc = "trim_done")
          => /\ [i \in 1..Len(Args(fn, 2)) |-> Aux(fn, Args(fn, 2)[i])] = <<"v34", "v42", "v36">>
             /\ [i \in 1..Len(fn.preds[2]) |-> fn.preds[2][i].b] = <<1, 5, 7>>

\* trim has run on the README's Search and merged the phi of a block of
\* two predecessors into a phi of its successor.
C16_Witness ==
    /\ pc = "trim_done"
    /\ fn0 = SearchFunc
    /\ \E k \in 1..Len(log) :
          LET f == log[k].before
              b == log[k].b
              s == f.succs[b][1].b
          IN /\ Len(f.preds[b]) = 2
             /\ \E i \in 1..Len(f.order[s]) :
                   /\ Op(f, f.order[s][i]) = "Phi"
                   /\ Args(f, f.order[s][i])[f.succs[b][1].i] \in Range(f.order[b])

CFGWellFormed(f, bl) ==
    \A b \in Range(bl) :
        /\ \A i \in 1..Len(f.preds[b]) :
              LET e == f.preds[b][i]
              IN /\ e.b \in Range(bl)
                 /\ e.i \in 1..Len(f.succs[e.b])
                 /\ f.succs[e.b][e.i] = Edge(b, i)
        /\ \A i \in 1..Len(f.succs[b]) :
              LET e == f.succs[b][i]
              IN /\ e.b \in Range(bl)
                 /\ e.i \in 1..Len(f.preds[e.b])
                 /\ f.preds[e.b][e.i] = Edge(b, i)

\* C17 (Trim keeps the CFG well-formed): at every point of trim, for every
\* block B of f.Blocks and every index i, B.preds[i] = (A, j) implies
\* A.succs[j] = (B, i), and the same from the successor edges; no edge of a
\* block of f.Blocks refers to a deleted block.
C17_CFGWellFormed == CFGWellFormed(fn, blocks)

\* trim has deleted a block of two predecessors and then another block.
C17_Witness ==
    /\ Len(log) >= 2
    /\ Len(log[1].before.preds[log[1].b]) >= 2 \/ Len(log[2].before.preds[log[2].b]) >= 2

\* The block paths from the entry block, of at most n blocks.
RECURSIVE PathsOfLen(_, _)
PathsOfLen(f, n) ==
    IF n = 1 THEN {<<1>>}
    ELSE {Append(p, s) : <<p, s>> \in
             UNION {{q} \X SuccBlocks(f, q[Len(q)]) : q \in PathsOfLen(f, n - 1)}}

Paths(f, n) == UNION {PathsOfLen(f, k) : k \in 1..n}

Without(p, b) == SelectSeq(p, LAMBDA x : x # b)

MaxPathLen == 5

\* C18 (Trim CFG equivalence): after trim deletes b, the block paths from
\* the entry block (of at most MaxPathLen blocks) are the paths before the
\* deletion with every occurrence of b removed.
C18_PathsPreserved ==
    \A k \in 1..Len(log) :
        Paths(log[k].after, MaxPathLen)
            = {q \in {Without(p, log[k].b) : p \in Paths(log[k].before, 2 * MaxPathLen)} :
                  Len(q) <= MaxPathLen}

\* trim has deleted a block of two predecessors that lies on a path from the
\* entry block to a block after it.
C18_Witness ==
    \E k \in 1..Len(log) :
        /\ Len(log[k].before.preds[log[k].b]) = 2
        /\ \E p \in Paths(log[k].before, MaxPathLen) :
              \E i \in 1..(Len(p) - 1) : p[i] = log[k].b


\* ------------------------------------------------------------------------
\* The typed constant opcode of a type.
TypedConst(t) ==
    CASE t = "bool" -> "ConstBool" [] t = "int8" -> "Const8" [] t = "int16" -> "Const16"
      [] t = "int32" -> "Const32" [] t = "int64" -> "Const64"

\* C22 (SCCP finalization): when sccp returns, every value whose final
\* lattice kind is CONST and whose opcode was not a constant has the typed
\* constant opcode of its type, AuxInt equal to the lattice bits, no
\* arguments, and its type, ID and block; every other value, the value
\* lists and every block's edges, kind and control are as they were.
C22_Finalization ==
    (pc = "done" /\ run = 1) =>
        /\ \A v \in 1..NumValues(fn0) :
              IF cells[v].kind = latticeConst
                    /\ Op(fn0, v) \notin {"ConstBool", "Const8", "Const16", "Const32", "Const64"}
              THEN /\ Op(fn, v) = TypedConst(Type(fn0, v))
                   /\ AuxInt(fn, v) = cells[v].bits
                   /\ Args(fn, v) = <<>>
                   /\ Type(fn, v) = Type(fn0, v)
              ELSE fn.vals[v] = fn0.vals[v]
        /\ NumValues(fn) = NumValues(fn0)
        /\ fn.order = fn0.order
        /\ fn.kinds = fn0.kinds
        /\ fn.succs = fn0.succs
        /\ fn.preds = fn0.preds
        /\ fn.ctl = fn0.ctl

\* sccp has returned from a function in which it replaced a boolean and an
\* integer operation and left a value that is not constant alone.
C22_Witness ==
    /\ pc = "done"
    /\ run = 1
    /\ \E u \in 1..NumValues(fn0) : \E v \in 1..NumValues(fn0) : \E w \in 1..NumValues(fn0) :
          /\ Op(fn0, u) \notin {"ConstBool", "Const8"} /\ Op(fn, u) = "ConstBool"
          /\ Op(fn0, v) \notin {"ConstBool", "Const8"} /\ Op(fn, v) = "Const8"
          /\ cells[w].kind = latticeBottom


\* C23 (SCCP conversion fold dispatch): the fold of Cvt32Fto64F is the
\* float32-to-float64 conversion of its argument and the fold of Cvt64Fto32F
\* the float64-to-float32 conversion; neither is the float32-to-int32 fold
\* foldCvt32Fto32. The floats of the model are values of both formats, so
\* the conversion keeps the value and changes the bit pattern.
C23_CvtDispatch ==
    pc = "folded" =>
        /\ fop = "Cvt32Fto64F" => fres.bits = f64i(i32f(fa[1]))
        /\ fop = "Cvt64Fto32F" => fres.bits = f32i(i64f(fa[1]))

\* The float32-to-int32 fold itself is what its own opcode wants.
C23_Cvt32Fto32 ==
    (pc = "folded" /\ fop = "Cvt32Fto32") =>
        fres.bits = Int64Limbs(TruncDiv(Float32frombits(<<fa[1][3], fa[1][4]>>), 2))


\* The sign-extended n-bit two's-complement value of x (x modulo 2^n).
SignExtN(n, x) == LET m == x % (2 ^ n) IN IF m >= 2 ^ (n - 1) THEN m - 2 ^ n ELSE m

\* The width of the result of an integer opcode of the fold table.
IntWidthOps ==
    {"Add8", "Sub8", "Mul8", "Neg8", "Com8", "Div8", "Trunc16to8",
     "Add16", "Sub16", "Mul16", "Neg16", "Com16", "Div16", "SignExt8to16", "ZeroExt8to16"}
OpWidth(op) ==
    IF op \in {"Add8", "Sub8", "Mul8", "Neg8", "Com8", "Div8", "Trunc16to8"} THEN 8 ELSE 16

\* The result of the operation on the integers, before it is cut to the
\* width of the opcode.
ExactResult(op, a) ==
    CASE op \in {"Add8", "Add16"} -> a[1] + a[2]
      [] op \in {"Sub8", "Sub16"} -> a[1] - a[2]
      [] op \in {"Mul8", "Mul16"} -> a[1] * a[2]
      [] op \in {"Neg8", "Neg16"} -> -a[1]
      [] op \in {"Com8", "Com16"} -> -a[1] - 1
      [] op \in {"Div8", "Div16"} -> TruncDiv(a[1], a[2])
      [] op \in {"Trunc16to8", "SignExt8to16"} -> a[1]
      [] op = "ZeroExt8to16" -> a[1] % 256

\* C24 (SCCP integer folds respect the opcode width): for an N-bit integer
\* opcode of the fold table applied to constant arguments that are
\* sign-extended N-bit values, the folded bits are the sign-extended N-bit
\* two's-complement result of the operation; Neg8 of -128 folds to -128.
C24_WidthRespected ==
    (pc = "folded" /\ fop \in IntWidthOps /\ \A i \in 1..Len(fk) : fk[i] = latticeConst) =>
        /\ fres.kind = latticeConst
        /\ fres.bits = SignExtN(OpWidth(fop), ExactResult(fop, fa))

\* The same for every opcode of the table but the negations.
C24_WidthButNeg ==
    (pc = "folded" /\ fop \in IntWidthOps \ {"Neg8", "Neg16"}
        /\ \A i \in 1..Len(fk) : fk[i] = latticeConst) =>
        /\ fres.kind = latticeConst
        /\ fres.bits = SignExtN(OpWidth(fop), ExactResult(fop, fa))


\* The refinement loop has ended and the replacement step has not begun.
RefineDone == (pc = "dom" /\ ri = 1) \/ (pc = "selectors" /\ partition = <<>>)

\* The classes at the end of the refinement loop.
RefinedClasses ==
    /\ \A v, w \in 1..NumValues(fn) :
          (valueEqClass[v] >= 0 /\ valueEqClass[v] = valueEqClass[w]) =>
              /\ Op(fn, v) = Op(fn, w)
              /\ AuxInt(fn, v) = AuxInt(fn, w)
              /\ Type(fn, v) = Type(fn, w)
              /\ Aux(fn, v) = Aux(fn, w)
              /\ Len(Args(fn, v)) = Len(Args(fn, w))
              /\ \A k \in 1..Len(Args(fn, v)) :
                    valueEqClass[Args(fn, v)[k]] = valueEqClass[Args(fn, w)[k]]
    /\ \A v \in 1..NumValues(fn) :
          IF valueEqClass[v] >= 0
          THEN /\ valueEqClass[v] < Len(partition)
               /\ v \in Elems(partition[valueEqClass[v] + 1])
          ELSE valueEqClass[v] = -v

\* The number of classes, unique values included; it is at most the number
\* of values.
NumClasses(eq) == Cardinality({eq[v] : v \in DOMAIN eq})

\* A step of the refinement loop either splits a class, or goes to the next
\* class of the pass, or ends a pass that split a class, or ends the loop:
\* the triple (values - classes, changed, classes left in the pass)
\* decreases in the lexicographic order, so the loop ends.
RefineDecreases ==
    \/ NumClasses(valueEqClass') > NumClasses(valueEqClass)
    \/ /\ valueEqClass' = valueEqClass
       /\ \/ pc' # "refine"
          \/ changed /\ ~changed'
          \/ /\ changed' = changed
             /\ Len(partition') = Len(partition)
             /\ ri' > ri /\ ri' <= Len(partition) + 1

\* C26 (CSE partition refinement reaches a fixed point): the refinement loop
\* ends, and when it has ended two values of one non-negative class have the
\* same opcode, AuxInt, type, Aux and argument count and arguments of equal
\* classes at every position; a value of non-negative class c is a member of
\* partition[c], and every other value has the class minus its own id.
C26_RefinementFixedPoint ==
    [](RefineDone => RefinedClasses) /\ [][pc = "refine" => RefineDecreases]_vars

\* The refinement loop has ended after a pass that split a class, with a
\* class of several members left and a value made unique by a split.
C26_Witness ==
    /\ RefineDone
    /\ pNum > 0
    /\ \E c \in 1..Len(partition) : Len(partition[c]) > 1
    /\ \E v \in 1..NumValues(fn) :
          /\ valueEqClass[v] < 0
          /\ \E w \in 1..NumValues(fn) :
                w # v /\ cmpVal(fn, auxIDs(fn), v, w) = "eq" /\ ~IsMemory(Type(fn, v))


\* C27 (CSE replacement is complete within a class): when the replacement
\* step has gone through every class, no two members V and W of one class
\* are both left unreplaced with V's block dominating or equal to W's; and
\* in a class sorted by domorder, a member whose block V's block does not
\* dominate is followed by no member whose block V's block dominates, so
\* the early break skips nothing.
C27_ReplacementComplete ==
    /\ pc = "selectors" =>
          \A v, w \in 1..NumValues(fn) :
              (v # w /\ valueEqClass[v] >= 0 /\ valueEqClass[v] = valueEqClass[w]
                  /\ rewrite[v] = 0 /\ rewrite[w] = 0) =>
                  ~Dominates(fn, BlockOf(fn, v), BlockOf(fn, w))
    /\ (pc = "dom" /\ ri <= Len(partition)) =>
          LET e == partitionByDom(fn, sdom, <<>>, partition[ri], 1)
          IN \A i, j, k \in 1..Len(e) :
                (i < j /\ j < k
                    /\ ~Dominates(fn, BlockOf(fn, e[i]), BlockOf(fn, e[j]))) =>
                    ~Dominates(fn, BlockOf(fn, e[i]), BlockOf(fn, e[k]))

\* The replacement step has ended with a class of which one member replaced
\* another and a member of a block it does not dominate was left, the inner
\* loop having broken off there.
C27_Witness ==
    /\ pc = "selectors"
    /\ \E u, v, w \in 1..NumValues(fn) :
          /\ valueEqClass[v] >= 0
          /\ valueEqClass[u] = valueEqClass[v] /\ valueEqClass[w] = valueEqClass[v]
          /\ rewrite[u] = v
          /\ rewrite[v] = 0 /\ rewrite[w] = 0 /\ v # w
          /\ ~Dominates(fn, BlockOf(fn, v), BlockOf(fn, w))


\* ------------------------------------------------------------------------
\* The functions the anticipation analysis is looked at on.  The CFG is
\* b1 -> b2; b2 -> b3, b4; b3 -> b5, b6; b4 -> b6; b6 returns; b5 goes on
\* to b6 or, in the shape with a loop, back to b2.  b1 holds v1 = Arg {x},
\* v2 = Arg {y}, v3 = Arg {c} (the control of b2) and v4 = Arg {d} (the
\* control of b3).  Each of b2..b5 holds nothing, or Add64 x y, or
\* Mul64uhilo x y with its Select0, or Mul64uhilo x y with its Select1.
AntShapes == {"dag", "loop"}
AntKinds == {"None", "Add", "Sel0", "Sel1"}
AntBlocks == 2..5

AntCFG(shape) ==
    MkFunc(<<"Plain", "If", "If", "Plain", "Plain", "Ret">>,
           << <<2>>, <<3, 4>>, <<5, 6>>, <<6>>,
              IF shape = "loop" THEN <<2>> ELSE <<6>>, <<>> >>,
           <<0, 3, 4, 0, 0, 0>>,
           << <<>>, <<>>, <<>>, <<>>, <<>>, <<>> >>, <<>>)

AntValues(kind, n) ==
    CASE kind = "None" -> <<>>
      [] kind = "Add" -> <<Val("Add64", <<1, 2>>, 0, "int64")>>
      [] kind = "Sel0" -> <<Val("Mul64uhilo", <<1, 2>>, 0, "tuple"),
                            Val("Select0", <<n + 1>>, 0, "int64")>>
      [] kind = "Sel1" -> <<Val("Mul64uhilo", <<1, 2>>, 0, "tuple"),
                            Val("Select1", <<n + 1>>, 0, "int64")>>

RECURSIVE AntEmitAll(_, _, _)
AntEmitAll(bs, ks, b) ==
    IF b > 5 THEN bs
    ELSE LET n == Len(bs.vals)
             vs == AntValues(ks[b], n)
         IN AntEmitAll([vals |-> bs.vals \o vs,
                        order |-> [bs.order EXCEPT ![b] = [i \in 1..Len(vs) |-> n + i]]],
                       ks, b + 1)

AntFunc(shape, ks) ==
    LET base == [vals |-> <<ValAux("Arg", <<>>, 0, "int64", "x"),
                            ValAux("Arg", <<>>, 0, "int64", "y"),
                            ValAux("Arg", <<>>, 0, "bool", "c"),
                            ValAux("Arg", <<>>, 0, "bool", "d")>>,
                 order |-> << <<1, 2, 3, 4>>, <<>>, <<>>, <<>>, <<>>, <<>> >>]
        s == AntEmitAll(base, ks, 2)
    IN [AntCFG(shape) EXCEPT !.order = s.order, !.vals = s.vals]

InitAnt ==
    /\ \E shape \in AntShapes : \E ks \in [AntBlocks -> AntKinds] : fn0 = AntFunc(shape, ks)
    /\ fn = fn0
    /\ pc = "cse"
    /\ cells = <<>>
    /\ exec = {}
    /\ flowlist = <<>>
    /\ ssalist = <<>>
    /\ run = 0
    /\ ir1 = <<>>
    /\ input = 0
    /\ at = 0
    /\ env = <<>>
    /\ steps = 0
    /\ FoldIdle
    /\ CseInit
    /\ PassIdle

\* cse and hoistValues on these functions.
SpecAnt == InitAnt /\ [][NextHoist]_vars

\* The blocks from which every path reaches a block of S after finitely
\* many blocks: the least set that holds S and every block that has
\* successors, all of them in the set.
RECURSIVE MustReach(_, _)
MustReach(f, X) ==
    LET Y == X \cup {b \in 1..NumBlocks(f) :
                       Len(f.succs[b]) > 0 /\ SuccBlocks(f, b) \subseteq X}
    IN IF Y = X THEN X ELSE MustReach(f, Y)

\* The blocks that own a value cse has put in class c: the values made
\* after valueEqClass was filled (the copied selectors) are in no class.
OwnersOfClass(c) ==
    {BlockOf(fn, v) : v \in {w \in 1..NumValues(fn0) : valueEqClass[w] = c}}

\* anticipatedExprs has returned and no class has been hoisted yet.
AntReturned == pc = "hoist" /\ ri = 1

\* C28 (anticipation is sound): for every block B and class c of antOut[B],
\* B has a successor, the class has more than one member, and every path
\* that leaves B through a successor reaches, after finitely many blocks, a
\* block that owns a value of class c.
C28_AnticipationSound ==
    AntReturned =>
        \A b \in 1..NumBlocks(fn) : \A c \in antOut[b] :
            /\ Len(fn.succs[b]) >= 1
            /\ Len(partition[c + 1]) > 1
            /\ SuccBlocks(fn, b) \subseteq MustReach(fn, OwnersOfClass(c))

\* The same when cse has copied no selector.
C28_SoundWithoutCopies ==
    (AntReturned /\ NumValues(fn) = NumValues(fn0)) =>
        \A b \in 1..NumBlocks(fn) : \A c \in antOut[b] :
            /\ Len(fn.succs[b]) >= 1
            /\ Len(partition[c + 1]) > 1
            /\ SuccBlocks(fn, b) \subseteq MustReach(fn, OwnersOfClass(c))


\* The records hoistClass adds to the log in a step.
NewHoists == (Len(log) + 1)..Len(log')

\* What a step of the loop of hoistValues over the classes does to the
\* function.
HoistRewrite ==
    /\ NumValues(fn') - NumValues(fn) = Len(log') - Len(log)
    /\ \A k \in NewHoists :
          LET r == log'[k]
          IN /\ Len(r.vs) >= 2
             /\ r.new > NumValues(fn) /\ r.new <= NumValues(fn')
             /\ BlockOf(fn', r.new) = r.blk
             /\ \A j \in 1..Len(r.vs) :
                   LET u == r.vs[j]
                   IN /\ u <= NumValues(fn)
                      /\ Op(fn', r.new) = Op(fn, u)
                      /\ Type(fn', r.new) = Type(fn, u)
                      /\ Aux(fn', r.new) = Aux(fn, u)
                      /\ AuxInt(fn', r.new) = AuxInt(fn, u)
                      /\ BlockOf(fn', u) = BlockOf(fn, u)
                      /\ Type(fn', u) = Type(fn, u)
                      /\ IF IsVoid(Type(fn, u))
                         THEN Op(fn', u) = "Invalid" /\ Args(fn', u) = <<>>
                         ELSE Op(fn', u) = "Copy" /\ Args(fn', u) = <<r.new>>
    /\ \A v \in 1..NumValues(fn) :
          (\A k \in NewHoists : v \notin Elems(log'[k].vs)) =>
              fn'.vals[v] = fn.vals[v] /\ BlockOf(fn', v) = BlockOf(fn, v)

\* C29 (hoist rewrite): a value N hoistClass creates has the opcode, type,
\* Aux and AuxInt of the members it absorbs; an absorbed member keeps its id
\* and block and becomes a Copy whose only argument is N, or an Invalid
\* without arguments when its type is void; values are created only for
\* destinations that absorb two members or more, and every value that is
\* not absorbed is left as it was.
C29_HoistRewrite == [][(pc = "hoist" /\ pc' = "hoist" /\ ri' # ri) => HoistRewrite]_vars

\* hoistValues has returned after a step that hoisted a class and, for the
\* new value of it, a class of its users.
C29_Witness ==
    /\ pc = "hoist_done"
    /\ \E k \in 1..Len(log) :
          /\ Len(log[k].vs) >= 2
          /\ \A j \in 1..Len(log[k].vs) :
                Op(fn, log[k].vs[j]) = "Copy" /\ Args(fn, log[k].vs[j]) = <<log[k].new>>
          /\ \E i \in 1..Len(log) : log[k].new \in Elems(Args(fn, log[i].new))

\* hoistValues has returned from a function in which a class had one member
\* under a destination and another member the destination does not
\* dominate: nothing was hoisted.
C29_SingleMember ==
    /\ pc = "hoist_done"
    /\ log = <<>>
    /\ \E u, w \in 1..NumValues(fn) :
          /\ u # w /\ valueEqClass[u] >= 0 /\ valueEqClass[u] = valueEqClass[w]
          /\ valueEqClass[u] \in hoistDone
          /\ Len(fn.preds[BlockOf(fn, u)]) = 1
          /\ valueEqClass[u] \in antOut[fn.preds[BlockOf(fn, u)][1].b]
          /\ ~Dominates(fn, fn.preds[BlockOf(fn, u)][1].b, BlockOf(fn, w))
          /\ fn.vals[u] = fn0.vals[u]


\* The predecessor slots of b whose edge is marked executable.
ExecSlots(b) ==
    {i \in 1..Len(fn.preds[b]) : fn.succs[fn.preds[b][i].b][fn.preds[b][i].i] \in exec}

\* The meet of a set of lattice values: TOP is neutral, BOTTOM absorbs, two
\* different constants meet in BOTTOM.
MeetOf(lvs) ==
    LET consts == {lv.bits : lv \in {x \in lvs : x.kind = latticeConst}}
    IN IF \E lv \in lvs : lv.kind = latticeBottom THEN LV(latticeBottom, 0)
       ELSE IF consts = {} THEN LV(latticeTop, 0)
       ELSE IF Cardinality(consts) = 1 THEN LV(latticeConst, CHOOSE c \in consts : TRUE)
       ELSE LV(latticeBottom, 0)

\* The cell of v is what its operation gives on the cells of its arguments.
ConsistentCell(v) ==
    IF Op(fn, v) = "Phi"
    THEN SameLV(cells[v],
                MeetOf({cells[Args(fn, v)[i]] : i \in ExecSlots(BlockOf(fn, v))}))
    ELSE LET r == ExprValue(fn, State, v)
         IN ~r.trap /\ SameLV(cells[v], LV(r.kind, r.bits))

\* C30 (SCCP ends in a consistent fixed point): when the main loop has ended
\* with both worklists empty, in the entry block and in every block with an
\* executable incoming edge the cell of a phi is the meet of the cells of
\* its arguments over the executable predecessor slots and the cell of any
\* other value is the evaluation of its opcode on the cells of its
\* arguments; in every other block the values that are not phis are TOP.
C30_ConsistentFixedPoint ==
    (pc = "rewrite" /\ flowlist = <<>> /\ ssalist = <<>>) =>
        \A b \in 1..NumBlocks(fn) : \A v \in InBlock(fn, b) :
            IF b = 1 \/ ExecSlots(b) # {}
            THEN ConsistentCell(v)
            ELSE Op(fn, v) # "Phi" => cells[v].kind = latticeTop

\* The same for the blocks other than the entry block.
C30_ConsistentBehindEntry ==
    (pc = "rewrite" /\ flowlist = <<>> /\ ssalist = <<>>) =>
        \A b \in 2..NumBlocks(fn) : \A v \in InBlock(fn, b) :
            IF ExecSlots(b) # {}
            THEN ConsistentCell(v)
            ELSE Op(fn, v) # "Phi" => cells[v].kind = latticeTop

====
